---- MODULE Spec2Model ----
(***************************************************************************)
(* Bird detection and tracking pipeline (scripts/tracker.py,               *)
(* scripts/detector.py, scripts/bird_tracker.py).                          *)
(*                                                                         *)
(* The CentroidTracker object is the record held by the variable           *)
(* `tracker`; its fields carry the names of the Python attributes.  An     *)
(* OrderedDict is a sequence of records [k |-> key, v |-> value] in        *)
(* insertion order.  Centroids are pairs of integers.  Row, column and     *)
(* detection indices are 0-based as in the source; the centroid of         *)
(* detection index i is input_centroids[i + 1].                            *)
(***************************************************************************)
EXTENDS Integers, Sequences, FiniteSets, TLC

VARIABLES
    tracker,    \* the CentroidTracker instance (configuration and state)
    frame,      \* number of update() calls made on the tracker so far
    script,     \* which detection stream drives the tracker
    last,       \* what the last update() call did (its local variables)
    issued,     \* ids handed out by register(), in the order issued
    ipc,        \* the streaming process (run_ipc_mode / process_video_stream)
    detector    \* the BirdDetector instance and its last filter_contours() call

vars == <<tracker, frame, script, last, issued, ipc, detector>>

-----------------------------------------------------------------------------
(* Bounds of the model *)

\* number of freely chosen frames of a run
MaxFrames == 3

(* Constants of the program *)

probationary_max_disappeared == 5
max_trail_length == 30

-----------------------------------------------------------------------------
(* Generic helpers *)

Abs(x) == IF x < 0 THEN -x ELSE x

Range(s) == {s[i] : i \in DOMAIN s}

RECURSIVE SumSeq(_)
SumSeq(s) == IF s = <<>> THEN 0 ELSE s[1] + SumSeq(Tail(s))

\* ascending enumeration of a finite set of integers
RECURSIVE Sorted(_)
Sorted(S) ==
    IF S = {} THEN <<>>
    ELSE LET m == CHOOSE x \in S : \A y \in S : x <= y
         IN <<m>> \o Sorted(S \ {m})

(* OrderedDict: insertion-ordered key/value pairs *)

Keys(d) == [i \in DOMAIN d |-> d[i].k]
Values(d) == [i \in DOMAIN d |-> d[i].v]
KeySet(d) == {d[i].k : i \in DOMAIN d}
Has(d, key) == key \in KeySet(d)
Get(d, key) == d[CHOOSE i \in DOMAIN d : d[i].k = key].v
Put_move_to_end(d, key, value) ==
    Append(SelectSeq(d, LAMBDA e : e.k # key), [k |-> key, v |-> value])

\* d[key] = value: an existing key keeps its place, a new key goes last
Put(d, key, value) ==
    IF Has(d, key)
    THEN [i \in DOMAIN d |-> IF d[i].k = key THEN [k |-> key, v |-> value] ELSE d[i]]
    ELSE Append(d, [k |-> key, v |-> value])
\* del d[key]
Del(d, key) == SelectSeq(d, LAMBDA e : e.k # key)

deque_append_unbounded(q, x, maxlen) == Append(q, x)

\* deque(maxlen).append: the oldest entry is evicted when the deque is full
deque_append(q, x, maxlen) ==
    IF maxlen = 0 THEN <<>>
    ELSE IF Len(q) >= maxlen THEN Tail(q) \o <<x>>
    ELSE Append(q, x)

(* Euclidean geometry on integer centroids.  A length is a binary64 value; *)
(* the model holds it as an integer number of 1/Scale px.  A centroid pair *)
(* at an integral distance n has the length n exactly, held as n * Scale,  *)
(* and sums of such lengths are exact.  The other lengths the runs compute *)
(* are given by float_norm, in units that keep the order and the sums of   *)
(* the binary64 values:                                                    *)
(*     sqrt(2)  = 1.4142135623730951                                       *)
(*     sqrt(18) = 4.242640687119285                                        *)
(*     sqrt(2) + sqrt(18) = 5.65685424949238   (the rounded sum)           *)
(*     sqrt(32) = 5.656854249492381            (one unit in the last place *)
(*                                              above the rounded sum)     *)
(* The CHOOSE has no value (TLC stops) for any other length.               *)

Sub(a, b) == <<a[1] - b[1], a[2] - b[2]>>

Scale == 10000

\* np.linalg.norm of a vector of squared length 2, 18 or 32
float_norm(squared) ==
    IF squared = 2 THEN 14142
    ELSE IF squared = 18 THEN 42426
    ELSE 56569

norm(v) ==
    LET squared == v[1] * v[1] + v[2] * v[2]
    IN IF squared \in {2, 18, 32} THEN float_norm(squared)
       ELSE Scale * (CHOOSE r \in 0..(Abs(v[1]) + Abs(v[2])) : r * r = squared)

compute_distance_matrix(centroids_a, centroids_b) ==
    [i \in DOMAIN centroids_a |->
        [j \in DOMAIN centroids_b |-> norm(Sub(centroids_a[i], centroids_b[j]))]]

(* scipy.optimize.linear_sum_assignment on an M x N cost matrix: a         *)
(* one-to-one assignment of min(M, N) pairs of minimum total cost.  An     *)
(* assignment is a set of <<row, col>>; where several have the minimum     *)
(* cost the solver returns one of them, and the model allows each.         *)

InjectiveFns_all(A, B) == [A -> B]

InjectiveFns(A, B) == {f \in [A -> B] : \A x, y \in A : x # y => f[x] # f[y]}

Assignments(M, N) ==
    IF M <= N
    THEN {{<<r, f[r]>> : r \in 0..(M - 1)} : f \in InjectiveFns(0..(M - 1), 0..(N - 1))}
    ELSE {{<<g[c], c>> : c \in 0..(N - 1)} : g \in InjectiveFns(0..(N - 1), 0..(M - 1))}

RECURSIVE Cost(_, _)
Cost(distances, a) ==
    IF a = {} THEN 0
    ELSE LET p == CHOOSE q \in a : TRUE
         IN distances[p[1] + 1][p[2] + 1] + Cost(distances, a \ {p})

linear_sum_assignment_any(distances) ==
    LET M == Len(distances)
        N == IF M = 0 THEN 0 ELSE Len(distances[1])
    IN Assignments(M, N)

linear_sum_assignment(distances) ==
    LET M == Len(distances)
        N == IF M = 0 THEN 0 ELSE Len(distances[1])
        all == Assignments(M, N)
    IN {a \in all : \A b \in all : Cost(distances, a) <= Cost(distances, b)}

\* zip(row_indices, col_indices): the pairs in ascending row order
RowsOf(a) == Sorted({p[1] : p \in a})
ColOf(a, row) == (CHOOSE p \in a : p[1] = row)[2]

-----------------------------------------------------------------------------
(* CentroidTracker *)

\* CentroidTracker.__init__
NewTracker(max_disappeared, max_distance, enabled, min_confirm_frames, min_move_distance) ==
    [ next_object_id |-> 0,
      objects |-> <<>>,
      disappeared |-> <<>>,
      max_disappeared |-> max_disappeared,
      max_distance |-> max_distance,
      temporal_filter_enabled |-> enabled,
      min_confirm_frames |-> min_confirm_frames,
      min_move_distance |-> min_move_distance,
      next_probationary_id |-> 0,
      probationary |-> <<>>,
      probationary_initial |-> <<>>,
      probationary_frames |-> <<>>,
      probationary_disappeared |-> <<>>,
      probationary_trajectories |-> <<>>,
      trajectories |-> <<>>,
      total_birds_seen |-> 0 ]

register_no_increment(t, centroid) ==
    LET object_id == t.next_object_id
    IN [t EXCEPT
          !.objects = Put(t.objects, object_id, centroid),
          !.disappeared = Put(t.disappeared, object_id, 0),
          !.trajectories = Put(t.trajectories, object_id, <<centroid>>),
          !.total_birds_seen = t.total_birds_seen + 1]

register(t, centroid) ==
    LET object_id == t.next_object_id
    IN [t EXCEPT
          !.objects = Put(t.objects, object_id, centroid),
          !.disappeared = Put(t.disappeared, object_id, 0),
          !.trajectories = Put(t.trajectories, object_id, deque_append(<<>>, centroid, max_trail_length)),
          !.next_object_id = t.next_object_id + 1,
          !.total_birds_seen = t.total_birds_seen + 1]

deregister_uncounted(t, object_id) ==
    [t EXCEPT
       !.objects = Del(t.objects, object_id),
       !.disappeared = Del(t.disappeared, object_id),
       !.trajectories = Del(t.trajectories, object_id),
       !.total_birds_seen = t.total_birds_seen - 1]

deregister_keeps_trajectory(t, object_id) ==
    [t EXCEPT
       !.objects = Del(t.objects, object_id),
       !.disappeared = Del(t.disappeared, object_id)]

deregister(t, object_id) ==
    [t EXCEPT
       !.objects = Del(t.objects, object_id),
       !.disappeared = Del(t.disappeared, object_id),
       !.trajectories = IF Has(t.trajectories, object_id) THEN Del(t.trajectories, object_id) ELSE t.trajectories]

register_probationary_unseen(t, centroid) ==
    LET prob_id == t.next_probationary_id
    IN [t EXCEPT
          !.probationary = Put(t.probationary, prob_id, centroid),
          !.probationary_initial = Put(t.probationary_initial, prob_id, centroid),
          !.probationary_frames = Put(t.probationary_frames, prob_id, 0),
          !.probationary_disappeared = Put(t.probationary_disappeared, prob_id, 0),
          !.probationary_trajectories = Put(t.probationary_trajectories, prob_id, <<>>),
          !.next_probationary_id = t.next_probationary_id + 1]

register_probationary(t, centroid) ==
    LET prob_id == t.next_probationary_id
    IN [t EXCEPT
          !.probationary = Put(t.probationary, prob_id, centroid),
          !.probationary_initial = Put(t.probationary_initial, prob_id, centroid),
          !.probationary_frames = Put(t.probationary_frames, prob_id, 1),
          !.probationary_disappeared = Put(t.probationary_disappeared, prob_id, 0),
          !.probationary_trajectories =
              Put(t.probationary_trajectories, prob_id, deque_append(<<>>, centroid, t.min_confirm_frames)),
          !.next_probationary_id = t.next_probationary_id + 1]

deregister_probationary_kept(t, prob_id) == t

deregister_probationary(t, prob_id) ==
    IF Has(t.probationary, prob_id)
    THEN [t EXCEPT
            !.probationary = Del(t.probationary, prob_id),
            !.probationary_initial = Del(t.probationary_initial, prob_id),
            !.probationary_frames = Del(t.probationary_frames, prob_id),
            !.probationary_disappeared = Del(t.probationary_disappeared, prob_id),
            !.probationary_trajectories = Del(t.probationary_trajectories, prob_id)]
    ELSE t

promote_probationary_same_id(t, prob_id) ==
    LET centroid == Get(t.probationary, prob_id)
        t1 == deregister_probationary(t, prob_id)
    IN [t1 EXCEPT
          !.objects = Put(t1.objects, prob_id, centroid),
          !.disappeared = Put(t1.disappeared, prob_id, 0),
          !.trajectories = Put(t1.trajectories, prob_id, <<centroid>>),
          !.next_object_id = t1.next_object_id + 1,
          !.total_birds_seen = t1.total_birds_seen + 1]

promote_probationary_with_path(t, prob_id) ==
    LET centroid == Get(t.probationary, prob_id)
        path == Get(t.probationary_trajectories, prob_id)
        t1 == register(deregister_probationary(t, prob_id), centroid)
    IN [t1 EXCEPT !.trajectories = Put(t1.trajectories, t.next_object_id, path)]

promote_probationary(t, prob_id) ==
    LET centroid == Get(t.probationary, prob_id)
    IN register(deregister_probationary(t, prob_id), centroid)

\* the loop of check_probationary_promotion: the length of the stored path
cumulative_distance(trajectory) ==
    SumSeq([i \in 1..(Len(trajectory) - 1) |->
                norm(Sub(trajectory[i + 1], trajectory[i]))])

net_displacement(t, prob_id) ==
    norm(Sub(Get(t.probationary, prob_id), Get(t.probationary_initial, prob_id)))

check_promotion_net_only(t, prob_id) ==
    /\ Get(t.probationary_frames, prob_id) >= t.min_confirm_frames
    /\ net_displacement(t, prob_id) >= t.min_move_distance

check_promotion_frames_only(t, prob_id) ==
    /\ Get(t.probationary_frames, prob_id) >= t.min_confirm_frames
    /\ Len(Get(t.probationary_trajectories, prob_id)) >= 2

check_probationary_promotion(t, prob_id) ==
    IF Get(t.probationary_frames, prob_id) < t.min_confirm_frames THEN FALSE
    ELSE LET trajectory == Get(t.probationary_trajectories, prob_id)
         IN IF Len(trajectory) < 2 THEN FALSE
            ELSE \/ cumulative_distance(trajectory) >= t.min_move_distance
                 \/ net_displacement(t, prob_id) >= t.min_move_distance

get_trajectory(t, object_id) ==
    IF Has(t.trajectories, object_id) THEN Get(t.trajectories, object_id) ELSE <<>>

get_statistics(t) ==
    [current_birds |-> Len(t.objects), total_birds_seen |-> t.total_birds_seen]

\* CentroidTracker.reset: the five fields it assigns
reset(t) ==
    [t EXCEPT !.next_object_id = 0,
              !.objects = <<>>,
              !.disappeared = <<>>,
              !.trajectories = <<>>,
              !.total_birds_seen = 0]

(* The loops of update().  Each takes the loop's state s, a record holding *)
(* the tracker s.t and the loop's local variables, and the items left.     *)

expired_early(count, max_disappeared) == count >= max_disappeared

expired_late(count, max_disappeared) == count > max_disappeared + 1

\* `self.disappeared[object_id] > self.max_disappeared`
expired(count, max_disappeared) == count > max_disappeared

probationary_expired_early(count) == count >= probationary_max_disappeared

probationary_expired_late(count) == count > probationary_max_disappeared + 1

\* `self.probationary_disappeared[prob_id] > self.probationary_max_disappeared`
probationary_expired(count) == count > probationary_max_disappeared

failed_validation_never(t, prob_id) == FALSE

failed_validation_late(t, prob_id) ==
    Get(t.probationary_frames, prob_id) > t.min_confirm_frames

\* `elif self.probationary_frames[prob_id] >= self.min_confirm_frames`
failed_validation(t, prob_id) ==
    Get(t.probationary_frames, prob_id) >= t.min_confirm_frames

RECURSIVE age_objects_appending(_, _)
age_objects_appending(t, object_ids) ==
    IF object_ids = <<>> THEN t
    ELSE LET object_id == Head(object_ids)
             t1 == [t EXCEPT
                      !.disappeared = Put(t.disappeared, object_id, Get(t.disappeared, object_id) + 1),
                      !.trajectories =
                          Put(t.trajectories, object_id,
                              deque_append(Get(t.trajectories, object_id),
                                           Get(t.objects, object_id), max_trail_length))]
             t2 == IF expired(Get(t1.disappeared, object_id), t1.max_disappeared)
                   THEN deregister(t1, object_id)
                   ELSE t1
         IN age_objects_appending(t2, Tail(object_ids))

\* for object_id in ...: disappeared += 1, deregister past max_disappeared
RECURSIVE age_objects(_, _)
age_objects(t, object_ids) ==
    IF object_ids = <<>> THEN t
    ELSE LET object_id == Head(object_ids)
             t1 == [t EXCEPT !.disappeared = Put(t.disappeared, object_id, Get(t.disappeared, object_id) + 1)]
             t2 == IF expired(Get(t1.disappeared, object_id), t1.max_disappeared)
                   THEN deregister(t1, object_id)
                   ELSE t1
         IN age_objects(t2, Tail(object_ids))

\* for prob_id in ...: probationary_disappeared += 1, drop past the limit
RECURSIVE age_probationary(_, _)
age_probationary(t, prob_ids) ==
    IF prob_ids = <<>> THEN t
    ELSE LET prob_id == Head(prob_ids)
             t1 == [t EXCEPT !.probationary_disappeared =
                                 Put(t.probationary_disappeared, prob_id, Get(t.probationary_disappeared, prob_id) + 1)]
             t2 == IF probationary_expired(Get(t1.probationary_disappeared, prob_id))
                   THEN deregister_probationary(t1, prob_id)
                   ELSE t1
         IN age_probationary(t2, Tail(prob_ids))

accepted_inclusive(d, max_distance) == d <= max_distance

\* the acceptance test of a pair chosen by the solver
accepted(d, max_distance) == d < max_distance

\* for row, col in zip(row_indices, col_indices): confirmed objects
RECURSIVE match_objects(_, _, _, _, _, _)
match_objects(s, rows, a, object_ids, distances, centroids) ==
    IF rows = <<>> THEN s
    ELSE LET row == Head(rows)
             col == ColOf(a, row)
             d == distances[row + 1][col + 1]
             object_id == object_ids[row + 1]
             pair == [id |-> object_id, det |-> col, dist |-> d]
             s1 == IF accepted(d, s.t.max_distance)
                   THEN [s EXCEPT
                           !.t.objects = Put(s.t.objects, object_id, centroids[col + 1]),
                           !.t.disappeared = Put(s.t.disappeared, object_id, 0),
                           !.t.trajectories =
                               Put(s.t.trajectories, object_id,
                                   deque_append(Get(s.t.trajectories, object_id), centroids[col + 1],
                                                max_trail_length)),
                           !.used_rows = s.used_rows \cup {row},
                           !.used_cols = s.used_cols \cup {col},
                           !.matched = s.matched \cup {pair}]
                   ELSE [s EXCEPT !.rejected = s.rejected \cup {pair}]
         IN match_objects(s1, Tail(rows), a, object_ids, distances, centroids)

\* for row, col in zip(row_indices, col_indices): probationary objects
RECURSIVE match_probationary(_, _, _, _, _, _, _)
match_probationary(s, rows, a, prob_ids, distances, remaining_indices_list, centroids) ==
    IF rows = <<>> THEN s
    ELSE LET row == Head(rows)
             col == ColOf(a, row)
             d == distances[row + 1][col + 1]
             prob_id == prob_ids[row + 1]
             actual_detection_idx == remaining_indices_list[col + 1]
             new_centroid == centroids[actual_detection_idx + 1]
             t1 == [s.t EXCEPT
                      !.probationary = Put(s.t.probationary, prob_id, new_centroid),
                      !.probationary_disappeared = Put(s.t.probationary_disappeared, prob_id, 0),
                      !.probationary_frames = Put(s.t.probationary_frames, prob_id, Get(s.t.probationary_frames, prob_id) + 1),
                      !.probationary_trajectories =
                          Put(s.t.probationary_trajectories, prob_id,
                              deque_append(Get(s.t.probationary_trajectories, prob_id), new_centroid,
                                           s.t.min_confirm_frames))]
             promote == check_probationary_promotion(t1, prob_id)
             failed == ~promote /\ failed_validation(t1, prob_id)
             t2 == IF promote THEN promote_probationary(t1, prob_id)
                   ELSE IF failed THEN deregister_probationary(t1, prob_id)
                   ELSE t1
             pair == [pid |-> prob_id, det |-> actual_detection_idx, dist |-> d]
             entry == [pid |-> prob_id, det |-> actual_detection_idx, dist |-> d,
                       outcome |-> IF promote THEN "promoted"
                                   ELSE IF failed THEN "dropped" ELSE "kept",
                       id |-> IF promote THEN t1.next_object_id ELSE -1,
                       frames |-> Get(t1.probationary_frames, prob_id),
                       path |-> Get(t1.probationary_trajectories, prob_id),
                       initial |-> Get(t1.probationary_initial, prob_id),
                       pos |-> new_centroid]
             s1 == IF accepted(d, s.t.max_distance)
                   THEN [s EXCEPT
                           !.t = t2,
                           !.matched_prob_ids = s.matched_prob_ids \cup {prob_id},
                           !.used_detection_indices = s.used_detection_indices \cup {actual_detection_idx},
                           !.matched = Append(s.matched, entry)]
                   ELSE [s EXCEPT !.rejected = s.rejected \cup {pair}]
         IN match_probationary(s1, Tail(rows), a, prob_ids, distances,
                               remaining_indices_list, centroids)

\* for idx in final_remaining_indices: register_probationary(...)
RECURSIVE spawn_probationary(_, _, _)
spawn_probationary(s, idxs, centroids) ==
    IF idxs = <<>> THEN s
    ELSE LET idx == Head(idxs)
         IN spawn_probationary(
                [s EXCEPT !.t = register_probationary(s.t, centroids[idx + 1]),
                          !.spawned = Append(s.spawned, [det |-> idx, pid |-> s.t.next_probationary_id,
                                                  id |-> -1])],
                Tail(idxs), centroids)

spawn_objects_first_only(s, idxs, centroids) ==
    IF idxs = <<>> THEN s
    ELSE [s EXCEPT !.t = register(s.t, centroids[Head(idxs) + 1]),
                   !.spawned = Append(s.spawned, [det |-> Head(idxs), pid |-> -1,
                                                  id |-> s.t.next_object_id])]

\* for col in unused_cols: register(...)   (also: for centroid in input_centroids)
RECURSIVE spawn_objects(_, _, _)
spawn_objects(s, idxs, centroids) ==
    IF idxs = <<>> THEN s
    ELSE LET idx == Head(idxs)
         IN spawn_objects(
                [s EXCEPT !.t = register(s.t, centroids[idx + 1]),
                          !.spawned = Append(s.spawned, [det |-> idx, pid |-> -1,
                                                  id |-> s.t.next_object_id])],
                Tail(idxs), centroids)

\* indices 0 .. n-1
range(n) == 0..(n - 1)

\* [d[i] for i in idxs], idxs 0-based
Pick(seq, idxs) == [i \in DOMAIN idxs |-> seq[idxs[i] + 1]]

\* the record of what one update() call did
NoLog(input_centroids) ==
    [ input |-> input_centroids,
      confirmed_matched |-> {}, confirmed_rejected |-> {}, confirmed_aged |-> {},
      probationary_matched |-> <<>>, probationary_rejected |-> {},
      probationary_aged |-> {}, spawned |-> <<>> ]

update_empty_confirmed_only(t, input_centroids) ==
    [t |-> age_objects(t, Keys(t.disappeared)),
     log |-> [NoLog(input_centroids) EXCEPT !.confirmed_aged = KeySet(t.disappeared)]]

\* update(), temporal filter enabled, no detections (Phase 1)
update_empty(t, input_centroids) ==
    LET t1 == age_objects(t, Keys(t.disappeared))
        t2 == age_probationary(t1, Keys(t1.probationary_disappeared))
    IN [t |-> t2,
        log |-> [NoLog(input_centroids) EXCEPT
                   !.confirmed_aged = KeySet(t.disappeared),
                   !.probationary_aged = KeySet(t.probationary_disappeared)]]

\* update(), Phase 2: confirmed objects against all detections, under the
\* solver's assignment a
phase2(t, input_centroids, a) ==
    LET object_ids == Keys(t.objects)
        object_centroids == Values(t.objects)
        distances == compute_distance_matrix(object_centroids, input_centroids)
        s0 == [t |-> t, used_rows |-> {}, used_cols |-> {}, matched |-> {},
               rejected |-> {}, aged |-> {}]
        s1 == match_objects(s0, RowsOf(a), a, object_ids, distances, input_centroids)
        unused_rows == range(Len(object_ids)) \ s1.used_rows
        unmatched == Pick(object_ids, Sorted(unused_rows))
    IN [s1 EXCEPT !.t = age_objects(s1.t, unmatched),
                  !.aged = Range(unmatched)]

\* the cost matrix of Phase 2
phase2_distances(t, input_centroids) ==
    compute_distance_matrix(Values(t.objects), input_centroids)

remaining_indices_all(input_centroids, used_detection_indices) ==
    Sorted(range(Len(input_centroids)))

\* the detections left to Phase 3, in ascending index order
remaining_indices(input_centroids, used_detection_indices) ==
    Sorted(range(Len(input_centroids)) \ used_detection_indices)

\* the cost matrix of Phase 3
phase3_distances(t, input_centroids, used_detection_indices) ==
    compute_distance_matrix(
        Values(t.probationary),
        Pick(input_centroids, remaining_indices(input_centroids, used_detection_indices)))

\* update(), Phase 3: probationary objects against the remaining detections,
\* under the solver's assignment b
phase3(t, input_centroids, used_detection_indices, b) ==
    LET prob_ids == Keys(t.probationary)
        remaining_indices_list == remaining_indices(input_centroids, used_detection_indices)
        distances == phase3_distances(t, input_centroids, used_detection_indices)
        s0 == [t |-> t, matched_prob_ids |-> {},
               used_detection_indices |-> used_detection_indices,
               matched |-> <<>>, rejected |-> {}]
    IN match_probationary(s0, RowsOf(b), b, prob_ids, distances,
                          remaining_indices_list, input_centroids)

\* update(), the aging pass and Phase 4, after Phases 2 and 3
phase4(t, input_centroids, matched_prob_ids, used_detection_indices) ==
    LET unmatched == SelectSeq(Keys(t.probationary), LAMBDA pid : pid \notin matched_prob_ids)
        t1 == age_probationary(t, unmatched)
        final_remaining_indices == range(Len(input_centroids)) \ used_detection_indices
        s == spawn_probationary([t |-> t1, spawned |-> <<>>],
                                Sorted(final_remaining_indices), input_centroids)
    IN [t |-> s.t, aged |-> Range(unmatched), spawned |-> s.spawned]

\* _update_without_temporal_filter(), under the solver's assignment a
update_without_temporal_filter(t, input_centroids, a) ==
    IF Len(input_centroids) = 0
    THEN [t |-> age_objects(t, Keys(t.disappeared)),
          log |-> [NoLog(input_centroids) EXCEPT !.confirmed_aged = KeySet(t.disappeared)]]
    ELSE IF Len(t.objects) = 0
    THEN LET s == spawn_objects([t |-> t, spawned |-> <<>>],
                                Sorted(range(Len(input_centroids))), input_centroids)
         IN [t |-> s.t, log |-> [NoLog(input_centroids) EXCEPT !.spawned = s.spawned]]
    ELSE LET s1 == phase2(t, input_centroids, a)
             unused_cols == range(Len(input_centroids)) \ s1.used_cols
             s2 == spawn_objects([t |-> s1.t, spawned |-> <<>>],
                                 Sorted(unused_cols), input_centroids)
         IN [t |-> s2.t,
             log |-> [NoLog(input_centroids) EXCEPT
                        !.confirmed_matched = s1.matched,
                        !.confirmed_rejected = s1.rejected,
                        !.confirmed_aged = s1.aged,
                        !.spawned = s2.spawned]]

\* the assignments the solver may return where update() calls it; {{}} where
\* it is not called
solver(call, distances) == IF call THEN linear_sum_assignment(distances) ELSE {{}}

\* update() with the temporal filter, detections present, under the solver's
\* assignments a (Phase 2) and b (Phase 3)
update_filtered(t, input_centroids, a, b) ==
    LET s1 == IF Len(t.objects) > 0
              THEN phase2(t, input_centroids, a)
              ELSE [t |-> t, used_rows |-> {}, used_cols |-> {},
                    matched |-> {}, rejected |-> {}, aged |-> {}]
        s2 == IF Len(s1.t.probationary) > 0
                 /\ range(Len(input_centroids)) \ s1.used_cols # {}
              THEN phase3(s1.t, input_centroids, s1.used_cols, b)
              ELSE [t |-> s1.t, matched_prob_ids |-> {},
                    used_detection_indices |-> s1.used_cols,
                    matched |-> <<>>, rejected |-> {}]
        s3 == phase4(s2.t, input_centroids, s2.matched_prob_ids, s2.used_detection_indices)
    IN [t |-> s3.t,
        log |-> [input |-> input_centroids,
                 confirmed_matched |-> s1.matched,
                 confirmed_rejected |-> s1.rejected,
                 confirmed_aged |-> s1.aged,
                 probationary_matched |-> s2.matched,
                 probationary_rejected |-> s2.rejected,
                 probationary_aged |-> s3.aged,
                 spawned |-> s3.spawned]]

\* the ids register() handed out in an update, in the order of the calls:
\* promotions in row order, then the detections registered directly
ids_issued(log) ==
    LET promoted == SelectSeq(log.probationary_matched, LAMBDA e : e.outcome = "promoted")
        direct == SelectSeq(log.spawned, LAMBDA e : e.id # -1)
    IN [i \in DOMAIN promoted |-> promoted[i].id] \o [i \in DOMAIN direct |-> direct[i].id]

\* update(): every result the call may have, one per choice of the solver
\* among assignments of equal cost
update(t, input_centroids) ==
    IF ~t.temporal_filter_enabled
    THEN {update_without_temporal_filter(t, input_centroids, a) :
            a \in solver(Len(input_centroids) > 0 /\ Len(t.objects) > 0,
                         phase2_distances(t, input_centroids))}
    ELSE IF Len(input_centroids) = 0
    THEN {update_empty(t, input_centroids)}
    ELSE UNION {
           LET s1 == IF Len(t.objects) > 0 THEN phase2(t, input_centroids, a)
                     ELSE [t |-> t, used_cols |-> {}]
               run3 == Len(s1.t.probationary) > 0
                       /\ range(Len(input_centroids)) \ s1.used_cols # {}
           IN {update_filtered(t, input_centroids, a, b) :
                 b \in solver(run3, phase3_distances(s1.t, input_centroids, s1.used_cols))} :
           a \in solver(Len(t.objects) > 0, phase2_distances(t, input_centroids))}

-----------------------------------------------------------------------------
(* BirdDetector *)

Min(a, b) == IF a < b THEN a ELSE b
Max(a, b) == IF a > b THEN a ELSE b

\* BirdDetector.__init__: the area bounds and the spatial filter.  A
\* horizon_line_percent is given in hundredths (70 is 0.70); a value outside
\* [0.0, 1.0] is clamped.
NewDetector(config) ==
    LET horizon_percent == config.horizon_line_percent
    IN [ config |-> config,
         min_area |-> config.min_contour_area,
         max_area |-> config.max_contour_area,
         spatial_filter_enabled |-> config.enabled,
         horizon_line_percent |->
             IF ~(0 <= horizon_percent /\ horizon_percent <= 100)
             THEN Max(0, Min(100, horizon_percent))
             ELSE horizon_percent,
         \* the call filter_contours(contours, frame_height): its arguments,
         \* whether it has returned, and its result
         contours |-> <<>>, frame_height |-> 0, returned |-> FALSE, valid_boxes |-> <<>> ]

\* int(frame_height * percent) in binary64 arithmetic, percent in hundredths.
\* The double nearest to 0.70 lies below 0.7, and 720 times it rounds to
\* 503.99999999999994, which int() truncates to 503.  The other products
\* of the model (heights 10 and 720 by 0.0, 0.5, 0.7 and 1.0) are exact.
int_times(frame_height, percent) ==
    IF frame_height = 720 /\ percent = 70 THEN 503
    ELSE (frame_height * percent) \div 100

\* the Y coordinate of the horizon line
horizon_line_y(d, frame_height) ==
    IF d.spatial_filter_enabled
    THEN int_times(frame_height, d.horizon_line_percent)
    ELSE frame_height

\* BirdDetector.filter_contours.  A contour is given by what cv2 reports for
\* it: its area (cv2.contourArea) and its bounding rectangle <<x, y, w, h>>
\* (cv2.boundingRect).
RECURSIVE filter_contours(_, _, _)
filter_contours(d, contours, frame_height) ==
    IF contours = <<>> THEN <<>>
    ELSE LET contour == Head(contours)
             area == contour.area
             y == contour.rect[2]
             h == contour.rect[4]
             cy == y + h \div 2
             valid == /\ d.min_area <= area /\ area <= d.max_area
                      /\ cy < horizon_line_y(d, frame_height)
         IN (IF valid THEN <<contour.rect>> ELSE <<>>)
                \o filter_contours(d, Tail(contours), frame_height)

\* number of contours of a frame
MaxContours == 2

\* the detection configurations (config.json: detection.*, spatial_filter.*)
DetectorConfigs ==
    [ min_contour_area : {2}, max_contour_area : {4}, enabled : BOOLEAN,
      horizon_line_percent : {-50, 0, 50, 70, 100, 150} ]

\* frame heights, and the contours of a frame of that height: areas around
\* the two bounds, rectangles inside the frame with their centre row at the
\* top, around the horizon line and at the bottom
Heights == {10, 720}
Rects(frame_height) ==
    IF frame_height = 10
    THEN {<<0, 0, 2, 1>>, <<0, 4, 2, 2>>, <<0, 6, 2, 2>>, <<0, 9, 2, 1>>}
    ELSE {<<0, 0, 2, 1>>, <<0, 503, 2, 1>>, <<0, 503, 2, 2>>, <<0, 719, 2, 1>>}
Contours(frame_height) == [area : {1, 2, 4, 5}, rect : Rects(frame_height)]
ContourLists(frame_height) ==
    UNION {[1..n -> Contours(frame_height)] : n \in 0..MaxContours}

\* the detector of the runs that drive the tracker directly
DefaultDetector ==
    NewDetector([min_contour_area |-> 2, max_contour_area |-> 4, enabled |-> FALSE,
                 horizon_line_percent |-> 70])

-----------------------------------------------------------------------------
(* The detection streams that drive the tracker *)

\* centroids of the freely chosen frames: a right triangle with sides 3, 4
\* and 5
Pos == {<<0, 0>>, <<3, 0>>, <<0, 4>>}

\* the detection lists of a freely chosen frame: every list of distinct
\* centroids of Pos
RECURSIVE Lists(_)
Lists(S) ==
    {<<>>} \cup UNION {{<<x>> \o q : q \in Lists(S \ {x})} : x \in S}

Detections == Lists(Pos)

\* tracker configurations (config.json: tracking.*, temporal_filter.*), the
\* distances in units of 1/Scale px
Legacy ==
    [enabled |-> FALSE, min_confirm_frames |-> 15, min_move_distance |-> 50 * Scale,
     max_disappeared |-> 1, max_distance |-> 5 * Scale]
Confirm2 ==
    [enabled |-> TRUE, min_confirm_frames |-> 2, min_move_distance |-> 4 * Scale,
     max_disappeared |-> 1, max_distance |-> 5 * Scale]
Confirm3 ==
    [enabled |-> TRUE, min_confirm_frames |-> 3, min_move_distance |-> 6 * Scale,
     max_disappeared |-> 0, max_distance |-> 5 * Scale]
Confirm1 ==
    [enabled |-> TRUE, min_confirm_frames |-> 1, min_move_distance |-> 4 * Scale,
     max_disappeared |-> 1, max_distance |-> 5 * Scale]
\* filter off, with a matching radius below the spacing of the detections
LegacyNear ==
    [enabled |-> FALSE, min_confirm_frames |-> 15, min_move_distance |-> 50 * Scale,
     max_disappeared |-> 1, max_distance |-> 3 * Scale]
\* the configurations of the crossing scenario: max_distance = 50
Crossing ==
    [enabled |-> FALSE, min_confirm_frames |-> 15, min_move_distance |-> 50 * Scale,
     max_disappeared |-> 1, max_distance |-> 50 * Scale]
CrossingFiltered ==
    [enabled |-> TRUE, min_confirm_frames |-> 2, min_move_distance |-> 8 * Scale,
     max_disappeared |-> 1, max_distance |-> 50 * Scale]
\* the configuration of the seed scenarios: min_confirm_frames = 5,
\* min_move_distance = 50, and the defaults of CentroidTracker.__init__
Seed ==
    [enabled |-> TRUE, min_confirm_frames |-> 5, min_move_distance |-> 50 * Scale,
     max_disappeared |-> 30, max_distance |-> 100 * Scale]

\* min_confirm_frames = 3 and min_move_distance = 5.656854249492381 px, the
\* binary64 value of sqrt(32)
ConfirmStraight ==
    [enabled |-> TRUE, min_confirm_frames |-> 3, min_move_distance |-> float_norm(32),
     max_disappeared |-> 1, max_distance |-> 5 * Scale]

\* single linear mover: 20 frames, from (50, 50) to (200, 50), at pixel
\* resolution (150 / 19, about 7.9 px, per step)
Mover == [n \in 1..20 |-> <<<<50 + (150 * (n - 1)) \div 19, 50>>>>]

\* single stationary blob: 10 frames at (100, 100)
Stationary == [n \in 1..10 |-> <<<<100, 100>>>>]

\* aging leak guard: one detection, then 10 frames without detections
Leak == <<<<<<0, 0>>>>>> \o [n \in 1..10 |-> <<>>]

\* detections on a line: tracks at (0, 0) and (2, 0), then detections at
\* (2, 0) and (6, 0), for which two assignments have the minimum cost 6
Collinear == << <<<<0, 0>>, <<2, 0>>>>, <<<<2, 0>>, <<6, 0>>>> >>

\* two objects passing each other on lines 30 px apart, 8 px per frame:
\* detection 0 moves right on y = 0, detection 1 moves left on y = 30
CrossingSlow == [n \in 1..4 |-> << <<8 * (n - 1), 0>>, <<24 - 8 * (n - 1), 30>> >>]

\* the same lines, 40 px per frame
CrossingFast == << << <<0, 0>>, <<40, 30>> >>, << <<40, 0>>, <<0, 30>> >> >>

\* a stationary candidate is dropped; then two candidates start, one moves
\* and one stays
Repromote ==
    << << <<3, 0>> >>, << <<3, 0>> >>,
       << <<0, 0>>, <<3, 0>> >>, << <<0, 4>>, <<3, 0>> >> >>

\* one object detected in 33 frames, moving 1 px per frame
LongTrack == [n \in 1..33 |-> << <<n, 0>> >>]

\* two detections of one frame with the same centroid, then one of them
Duplicate == << << <<0, 0>>, <<0, 0>> >>, << <<0, 0>> >> >>

\* a candidate that moves and is confirmed, and one left alone for five
\* frames, the last of them without detections
AtBounds ==
    << << <<0, 0>>, <<0, 34>> >>, << <<0, 4>> >>, << <<0, 4>> >>, << <<0, 4>> >>,
       << <<0, 4>> >>, <<>> >>

\* one object on the diagonal: a step of (1, 1), then a step of (3, 3)
Diagonal == << << <<0, 0>> >>, << <<1, 1>> >>, << <<4, 4>> >> >>

\* A run: a tracker configuration, a fixed stream of detection lists fed
\* first, and whether freely chosen frames follow it.
Runs ==
    { [name |-> "legacy", cfg |-> Legacy, stream |-> <<>>, free |-> TRUE],
      [name |-> "confirm2", cfg |-> Confirm2, stream |-> <<>>, free |-> TRUE],
      [name |-> "confirm2-tracked", cfg |-> Confirm2,
       stream |-> << <<<<0, 0>>>>, <<<<0, 4>>>> >>, free |-> TRUE],
      [name |-> "confirm2-stale", cfg |-> Confirm2,
       stream |-> << <<<<3, 0>>>>, <<<<0, 4>>>>, <<<<0, 4>>>>, <<<<0, 4>>>>,
                     <<<<0, 4>>>>, <<<<0, 4>>>> >>, free |-> TRUE],
      [name |-> "confirm3", cfg |-> Confirm3, stream |-> <<>>, free |-> TRUE],
      [name |-> "confirm3-tracked", cfg |-> Confirm3,
       stream |-> << <<<<0, 0>>>>, <<<<3, 0>>>>, <<<<0, 0>>>> >>, free |-> TRUE],
      [name |-> "confirm1", cfg |-> Confirm1,
       stream |-> << <<<<0, 0>>>>, <<<<0, 4>>>>, <<<<0, 4>>>> >>, free |-> FALSE],
      [name |-> "legacy-collinear", cfg |-> LegacyNear, stream |-> Collinear, free |-> FALSE],
      [name |-> "leak", cfg |-> Confirm2, stream |-> Leak, free |-> FALSE],
      [name |-> "legacy-long", cfg |-> Legacy, stream |-> LongTrack, free |-> FALSE],
      [name |-> "confirm2-repromote", cfg |-> Confirm2, stream |-> Repromote, free |-> FALSE],
      [name |-> "crossing-slow", cfg |-> Crossing, stream |-> CrossingSlow, free |-> FALSE],
      [name |-> "crossing-slow-filtered", cfg |-> CrossingFiltered, stream |-> CrossingSlow,
       free |-> FALSE],
      [name |-> "crossing-fast", cfg |-> Crossing, stream |-> CrossingFast, free |-> FALSE],
      [name |-> "mover", cfg |-> Seed, stream |-> Mover, free |-> FALSE],
      [name |-> "stationary", cfg |-> Seed, stream |-> Stationary, free |-> FALSE],
      [name |-> "confirm2-duplicate", cfg |-> Confirm2, stream |-> Duplicate,
       free |-> FALSE],
      [name |-> "confirm2-bounds", cfg |-> Confirm2, stream |-> AtBounds, free |-> FALSE],
      [name |-> "confirm3-diagonal", cfg |-> ConfirmStraight, stream |-> Diagonal,
       free |-> FALSE] }

Tracker(cfg) ==
    NewTracker(cfg.max_disappeared, cfg.max_distance, cfg.enabled,
               cfg.min_confirm_frames, cfg.min_move_distance)

\* a local name of the frame loop that no assignment has bound
Unbound == [kind |-> "unbound"]

\* the process before its first command (run_ipc_mode; run_cli_mode has
\* mode "cli")
Idle ==
    [ pc |-> "idle",              \* idle: reading stdin; loop: in the frame loop
      mode |-> "ipc",             \* ipc: run_ipc_mode; cli: run_cli_mode
      stdin |-> <<>>,             \* lines written to stdin and not yet read
      exit_code |-> -1,           \* -1 while the process runs
      commands |-> 0,             \* lines read from stdin
      out |-> <<>>,               \* lines written to stdout
      cap |-> "none",             \* the cv2.VideoCapture: none, open, released
      video |-> <<>>,             \* frames the source has not yet delivered
      frame_num |-> 0,
      bounding_boxes |-> <<>>,    \* locals of the frame loop
      objects |-> Unbound,
      detection_indices |-> Unbound,
      processing_stats |-> [processed_frames |-> 0, max_simultaneous_birds |-> 0,
                            total_unique_birds |-> 0] ]

Init ==
    /\ script \in Runs
    /\ tracker = Tracker(script.cfg)
    /\ frame = 0
    /\ last = NoLog(<<>>)
    /\ issued = <<>>
    /\ ipc = Idle
    /\ detector = DefaultDetector

\* one call tracker.update(input_centroids)
Call(input_centroids) ==
    \E r \in update(tracker, input_centroids) :
        /\ tracker' = r.t
        /\ last' = r.log
        /\ issued' = issued \o ids_issued(r.log)
        /\ frame' = frame + 1

\* the next frame of the run's fixed stream
Replay ==
    /\ frame < Len(script.stream)
    /\ Call(script.stream[frame + 1])
    /\ UNCHANGED <<script, ipc, detector>>

\* a freely chosen frame
Update ==
    /\ script.free
    /\ frame >= Len(script.stream)
    /\ frame < Len(script.stream) + MaxFrames
    /\ \E input_centroids \in Detections : Call(input_centroids)
    /\ UNCHANGED <<script, ipc, detector>>

\* the stream ends in frames without detections, until no track is left
Drain ==
    /\ frame >= Len(script.stream) + (IF script.free THEN MaxFrames ELSE 0)
    /\ Len(tracker.objects) + Len(tracker.probationary) > 0
    /\ Call(<<>>)
    /\ UNCHANGED <<script, ipc, detector>>

Next == Replay \/ Update \/ Drain

Spec == Init /\ [][Next]_vars

\* A host that also calls tracker.reset() between two updates (never twice
\* in a row): `last` holds no update log after it.
Reset ==
    /\ last # NoLog(<<>>)
    /\ tracker' = reset(tracker)
    /\ last' = NoLog(<<>>)
    /\ UNCHANGED <<frame, issued, script, ipc, detector>>

InitReset ==
    /\ Init
    /\ script.name \in {"confirm2", "confirm2-tracked"}

NextReset == Replay \/ Update \/ Drain \/ Reset

SpecReset == InitReset /\ [][NextReset]_vars

-----------------------------------------------------------------------------
(* The streaming pipeline: run_ipc_mode and process_video_stream *)

\* number of commands the streaming process reads
MaxCommands == 3

\* BirdDetector.get_centroids
get_centroids(bounding_boxes) ==
    [i \in DOMAIN bounding_boxes |->
        <<bounding_boxes[i][1] + bounding_boxes[i][3] \div 2,
          bounding_boxes[i][2] + bounding_boxes[i][4] \div 2>>]

\* A frame of a video is given by the bounding boxes detect() returns for it.
\* The boxes of the model are 2 x 2 boxes around the centroids of Pos,
\* shifted into the image by (1, 1).
BoxAt(c) == <<c[1], c[2], 2, 2>>
FrameOf(centroids) == [i \in DOMAIN centroids |-> BoxAt(Sub(centroids[i], <<1, 1>>))]

\* the videos a start command may name: their frames, or that they cannot
\* be opened
Videos ==
    { [opens |-> FALSE, frames |-> <<>>],
      [opens |-> TRUE, frames |-> <<>>],
      [opens |-> TRUE, frames |-> <<FrameOf(<<>>), FrameOf(<< <<1, 1>> >>)>>],
      [opens |-> TRUE, frames |-> <<FrameOf(<< <<1, 1>> >>), FrameOf(<< <<1, 5>> >>)>>],
      [opens |-> TRUE, frames |-> <<FrameOf(<< <<1, 5>> >>), FrameOf(<< <<1, 1>> >>)>>],
      [opens |-> TRUE, frames |-> <<FrameOf(<< <<1, 1>>, <<4, 1>> >>),
                                    FrameOf(<< <<1, 5>>, <<4, 1>> >>)>>] }

\* print(json.dumps(output), flush=True)
Print_(p, message) == [p EXCEPT !.out = Append(p.out, message)]

handle_exception_fatal(p, message) ==
    IF p.mode = "cli"
    THEN Print_([p EXCEPT !.pc = "exited", !.exit_code = 1],
                [type |-> "stderr", message |-> message])
    ELSE Print_([p EXCEPT !.pc = "exited", !.exit_code = 1],
                [type |-> "error", message |-> message])

\* `except Exception as e`: run_cli_mode writes the error to stderr and
\* exits with code 1; run_ipc_mode writes an error message and goes on to
\* the next line of stdin
handle_exception(p, message) ==
    IF p.mode = "cli"
    THEN Print_([p EXCEPT !.pc = "exited", !.exit_code = 1],
                [type |-> "stderr", message |-> message])
    ELSE Print_([p EXCEPT !.pc = "idle"],
                [type |-> "error", message |-> message])

Raise_unreleased(p, message) == handle_exception(p, message)

\* an exception leaves the frame loop: the finally clause releases the
\* source, then the caller handles the exception
Raise(p, message) == handle_exception([p EXCEPT !.cap = "released"], message)

\* `objects, detection_indices = self.tracker.update(centroids)`: the value
\* update() returns is the dict self.objects; unpacking a dict into two names
\* iterates its keys and needs exactly two of them
unpack2(ret) ==
    IF Len(ret) = 2
    THEN [ok |-> TRUE,
          objects |-> [kind |-> "int", val |-> Keys(ret)[1]],
          detection_indices |-> [kind |-> "int", val |-> Keys(ret)[2]]]
    ELSE [ok |-> FALSE, objects |-> Unbound, detection_indices |-> Unbound]

\* the objects of a frame record: the tracks whose detection index names a
\* bounding box of the frame
frame_objects(objects, detection_indices, bounding_boxes) ==
    LET hit == SelectSeq(objects,
                         LAMBDA e : /\ Has(detection_indices, e.k)
                                    /\ Get(detection_indices, e.k) < Len(bounding_boxes))
    IN [i \in DOMAIN hit |->
          [id |-> hit[i].k,
           box |-> bounding_boxes[Get(detection_indices, hit[i].k) + 1],
           cx |-> hit[i].v[1], cy |-> hit[i].v[2]]]

\* process_video_stream / process_video up to the frame loop: the source is
\* opened, or IOError is raised before the try block
open_video(p, v) ==
    IF ~v.opens
    THEN handle_exception(p, "Cannot open video file")
    ELSE [p EXCEPT !.pc = "loop", !.cap = "open", !.video = v.frames,
                   !.frame_num = 0,
                   !.bounding_boxes = <<>>,
                   !.objects = Unbound,
                   !.detection_indices = Unbound,
                   !.processing_stats =
                       [processed_frames |-> 0, max_simultaneous_birds |-> 0,
                        total_unique_birds |-> 0]]

\* {"action": "start", "input": <path>}
Start ==
    /\ ipc.mode = "ipc"
    /\ ipc.pc = "idle"
    /\ ipc.stdin = <<>>
    /\ ipc.commands < MaxCommands
    /\ \E v \in Videos :
        ipc' = open_video(Print_([ipc EXCEPT !.commands = ipc.commands + 1],
                                 [type |-> "started"]), v)
    /\ UNCHANGED <<tracker, frame, script, last, issued, detector>>

\* run_cli_mode: process_video(args.input, ...)
Cli ==
    /\ ipc.mode = "cli"
    /\ ipc.pc = "idle"
    /\ \E v \in Videos : ipc' = open_video(ipc, v)
    /\ UNCHANGED <<tracker, frame, script, last, issued, detector>>

\* a stop command is written to stdin while a video is being processed
StopArrives ==
    /\ ipc.mode = "ipc"
    /\ ipc.pc = "loop"
    /\ ipc.stdin = <<>>
    /\ ipc.commands < MaxCommands
    /\ ipc' = [ipc EXCEPT !.stdin = <<[action |-> "stop"]>>]
    /\ UNCHANGED <<tracker, frame, script, last, issued, detector>>

\* one pass of the frame loop with a frame read
Frame ==
    /\ ipc.pc = "loop"
    /\ ipc.video # <<>>
    /\ LET bounding_boxes == Head(ipc.video)
           centroids == get_centroids(bounding_boxes)
           frame_num == ipc.frame_num + 1
       IN \E r \in update(tracker, centroids) :
            LET u == unpack2(r.t.objects)
                p == [ipc EXCEPT !.video = Tail(ipc.video), !.frame_num = frame_num,
                                 !.bounding_boxes = bounding_boxes]
                stats == get_statistics(r.t)
                q == [p EXCEPT
                        !.objects = u.objects,
                        !.detection_indices = u.detection_indices,
                        !.processing_stats =
                            [processed_frames |-> frame_num,
                             max_simultaneous_birds |->
                                 IF stats.current_birds > p.processing_stats.max_simultaneous_birds
                                 THEN stats.current_birds
                                 ELSE p.processing_stats.max_simultaneous_birds,
                             total_unique_birds |-> stats.total_birds_seen]]
                w == [p EXCEPT !.objects = u.objects,
                               !.detection_indices = u.detection_indices]
            IN /\ tracker' = r.t
               /\ last' = r.log
               /\ issued' = issued \o ids_issued(r.log)
               /\ frame' = frame + 1
               /\ ipc' =
                    IF ~u.ok
                    THEN Raise(p, "ValueError: values to unpack (expected 2)")
                    ELSE \* for object_id, centroid in objects.items()
                         IF u.objects.kind # "dict"
                         THEN \* process_video reaches it in _visualize, before
                              \* the statistics; process_video_stream after them
                              Raise(IF ipc.mode = "cli" THEN w ELSE q,
                                    "AttributeError: 'int' object has no attribute 'items'")
                         ELSE IF ipc.mode = "cli"
                         THEN \* progress_callback
                              IF frame_num % 30 = 0
                              THEN Print_(q, [type |-> "progress", frame |-> frame_num,
                                              current_birds |-> stats.current_birds,
                                              total_birds |-> stats.total_birds_seen])
                              ELSE q
                         ELSE Print_(q, [type |-> "frame_data", frame |-> frame_num,
                                         objects |-> frame_objects(u.objects.val,
                                                                   u.detection_indices.val,
                                                                   bounding_boxes),
                                         current_birds |-> stats.current_birds,
                                         total_birds |-> stats.total_birds_seen])
    /\ UNCHANGED <<script, detector>>

\* cap.read() reports no frame: the loop ends and the results are written
EndOfStream ==
    /\ ipc.pc = "loop"
    /\ ipc.video = <<>>
    /\ ipc' = IF ipc.mode = "cli"
               THEN \* "Processing Complete!", and run_cli_mode returns
                    Print_([ipc EXCEPT !.cap = "released", !.pc = "exited", !.exit_code = 0],
                           [type |-> "complete", results |-> ipc.processing_stats])
               ELSE Print_([ipc EXCEPT !.cap = "released", !.pc = "idle"],
                           [type |-> "completed", results |-> ipc.processing_stats])
    /\ UNCHANGED <<tracker, frame, script, last, issued, detector>>

\* {"action": "stop"}
Stop ==
    /\ ipc.mode = "ipc"
    /\ ipc.pc = "idle"
    /\ ipc.commands < MaxCommands
    /\ ipc' = Print_([ipc EXCEPT !.commands = ipc.commands + 1, !.stdin = <<>>,
                                 !.pc = "exited", !.exit_code = 0],
                     [type |-> "stopped"])
    /\ UNCHANGED <<tracker, frame, script, last, issued, detector>>

\* BirdTrackingSystem.__init__ builds one tracker from the configuration
InitPipeline ==
    /\ script \in {r \in Runs : r.name \in {"legacy", "confirm2"}}
    /\ tracker = Tracker(script.cfg)
    /\ frame = 0
    /\ last = NoLog(<<>>)
    /\ issued = <<>>
    /\ ipc \in {Idle, [Idle EXCEPT !.mode = "cli"]}
    /\ detector = DefaultDetector

NextPipeline == Start \/ Cli \/ StopArrives \/ Frame \/ EndOfStream \/ Stop

SpecPipeline == InitPipeline /\ [][NextPipeline]_vars

-----------------------------------------------------------------------------
(* The detector on its own: filter_contours on the contours of a frame *)

InitDetector ==
    /\ script = CHOOSE r \in Runs : r.name = "legacy"
    /\ tracker = Tracker(script.cfg)
    /\ frame = 0
    /\ last = NoLog(<<>>)
    /\ issued = <<>>
    /\ ipc = Idle
    /\ \E config \in DetectorConfigs : \E frame_height \in Heights :
          \E contours \in ContourLists(frame_height) :
             detector = [NewDetector(config) EXCEPT
                           !.contours = contours, !.frame_height = frame_height]

\* the call self.filter_contours(contours, frame_height) of detect()
FilterContours ==
    /\ ~detector.returned
    /\ detector' = [detector EXCEPT
                      !.returned = TRUE,
                      !.valid_boxes = filter_contours(detector, detector.contours,
                                                      detector.frame_height)]
    /\ UNCHANGED <<tracker, frame, script, last, issued, ipc>>

NextDetector == FilterContours

SpecDetector == InitDetector /\ [][NextDetector]_vars

-----------------------------------------------------------------------------
(* Properties *)

\* the ids of the confirmed tracks matched by the last update
MatchedIds(log) == {e.id : e \in log.confirmed_matched}
\* the probationary tracks matched by the last update
MatchedPids(log) == {e.pid : e \in Range(log.probationary_matched)}
Promoted(log) == {e \in Range(log.probationary_matched) : e.outcome = "promoted"}
Dropped(log) == {e \in Range(log.probationary_matched) : e.outcome = "dropped"}
SpawnedDets(log) == {e.det : e \in Range(log.spawned)}
\* the movement a matched candidate shows: the length of its path, or its
\* displacement from where it started
Moved(e, min_move_distance) ==
    \/ cumulative_distance(e.path) >= min_move_distance
    \/ norm(Sub(e.pos, e.initial)) >= min_move_distance
\* the frame records written since the last "started"
RECURSIVE FrameRecords(_)
FrameRecords(out) ==
    IF out = <<>> \/ out[Len(out)].type = "started" THEN <<>>
    ELSE LET before == FrameRecords(SubSeq(out, 1, Len(out) - 1))
         IN IF out[Len(out)].type = "frame_data"
            THEN Append(before, out[Len(out)])
            ELSE before

(* C1: after every frame the update has handed the pipeline a            *)
(* detection-index map: each id matched in Phase A or promoted in Phase B *)
(* maps to the index of the detection that is now its position, and an id *)
(* that carried over unmatched has no entry.                              *)
C1_DetectionIndexMap ==
    ipc.frame_num >= 1 =>
        /\ ipc.detection_indices.kind = "dict"
        /\ \A e \in last.confirmed_matched \cup Promoted(last) :
              /\ Has(ipc.detection_indices.val, e.id)
              /\ Get(ipc.detection_indices.val, e.id) = e.det
              /\ Get(tracker.objects, e.id) = last.input[e.det + 1]
        /\ \A id \in last.confirmed_aged : ~Has(ipc.detection_indices.val, id)

(* C2: in streaming mode every frame pulled from the source has exactly   *)
(* one frame record,                                                      *)
(* numbered 1, 2, 3, ... in order, and the latest carries the number of   *)
(* confirmed tracks and total_birds_seen after its update.                *)
C2_OneRecordPerFrame ==
    ipc.mode = "ipc" =>
        LET records == FrameRecords(ipc.out)
        IN /\ Len(records) = ipc.frame_num
           /\ \A n \in DOMAIN records : records[n].frame = n
           /\ ipc.frame_num >= 1 =>
                 /\ records[ipc.frame_num].current_birds = Len(tracker.objects)
                 /\ records[ipc.frame_num].total_birds = tracker.total_birds_seen

(* C3: confirmed ids are pairwise distinct, are issued as 0, 1, 2, ... in *)
(* order, are not issued again after deregistration, and total_birds_seen *)
(* and next_object_id both equal the number of ids issued.                *)
C3_IdsUniqueAscending ==
    /\ \A i, j \in DOMAIN tracker.objects :
          i # j => tracker.objects[i].k # tracker.objects[j].k
    /\ \A n \in DOMAIN issued : issued[n] = n - 1
    /\ KeySet(tracker.objects) \subseteq Range(issued)
    /\ tracker.total_birds_seen = Len(issued)
    /\ tracker.next_object_id = Len(issued)

\* id 0 has been deregistered and a later id is tracked
C3_Witness ==
    /\ Len(issued) >= 2
    /\ 0 \notin KeySet(tracker.objects)
    /\ 1 \in KeySet(tracker.objects)

(* C4: with the temporal filter, a candidate is promoted only when it has *)
(* been observed in at least min_confirm_frames frames and has moved at   *)
(* least min_move_distance (along its path, or from its initial           *)
(* position); its stored path is then its whole history; and an id is     *)
(* issued only by a promotion.                                            *)
C4_PromotionOnlyWhenValidated ==
    tracker.temporal_filter_enabled =>
        /\ \A e \in Promoted(last) :
              /\ e.frames >= tracker.min_confirm_frames
              /\ Moved(e, tracker.min_move_distance)
              /\ Len(e.path) = e.frames
              /\ e.path[1] = e.initial
              /\ e.path[Len(e.path)] = e.pos
        /\ ids_issued(last) = Sorted({e.id : e \in Promoted(last)})
        /\ Len(ids_issued(last)) = Cardinality(Promoted(last))

\* a candidate has just been promoted
C4_Witness ==
    /\ tracker.temporal_filter_enabled
    /\ Promoted(last) # {}

(* C5: with the temporal filter, for every min_confirm_frames (1          *)
(* included), a candidate matched in Phase B that has then been observed  *)
(* in min_confirm_frames frames and has moved min_move_distance is        *)
(* promoted in that update: it gets a new id, the confirmed position is   *)
(* the matched centroid, and its probationary record is gone.             *)
C5_ValidatedIsPromoted ==
    tracker.temporal_filter_enabled =>
        \A e \in Range(last.probationary_matched) :
            (e.frames >= tracker.min_confirm_frames /\ Moved(e, tracker.min_move_distance))
            => /\ e.outcome = "promoted"
               /\ e.id \in Range(issued)
               /\ Has(tracker.objects, e.id)
               /\ Get(tracker.objects, e.id) = e.pos
               /\ ~Has(tracker.probationary, e.pid)

(* C6 as stated: the single linear mover gets exactly one id, at frame 7. *)
C6_MoverPromotedAtFrame7 ==
    script.name = "mover" =>
        /\ frame < 7 => issued = <<>>
        /\ frame >= 7 => issued = <<0>>

(* C6 as amended: the single linear mover gets no id.  Each candidate is  *)
(* dropped at the update of its 5th observation (frames 5, 10, 15, 20),   *)
(* having moved 4 steps (less than 50); the next detection starts a new   *)
(* candidate.  A candidate is promoted only at the update of its          *)
(* min_confirm_frames-th observation, if it has moved min_move_distance   *)
(* by then.                                                               *)
C6_MoverNeverPromoted ==
    /\ \A e \in Promoted(last) :
          e.frames = tracker.min_confirm_frames /\ Moved(e, tracker.min_move_distance)
    /\ script.name = "mover" =>
          /\ issued = <<>>
          /\ tracker.objects = <<>>
          /\ (frame >= 1 /\ frame % 5 = 0) =>
                /\ tracker.probationary = <<>>
                /\ Cardinality(Dropped(last)) = 1
                /\ \A e \in Dropped(last) :
                      e.frames = 5 /\ ~Moved(e, tracker.min_move_distance)
          /\ (frame >= 1 /\ frame % 5 # 0) =>
                /\ Len(tracker.probationary) = 1
                /\ tracker.probationary_frames[1].v = frame % 5

\* the last frame of the single linear mover
C6_Witness ==
    /\ script.name = "mover"
    /\ frame = 20
    /\ last.input = << <<200, 50>> >>

(* C7: a candidate that reaches min_confirm_frames observations without   *)
(* the movement is removed in that update and no id is issued for it; a   *)
(* stationary blob never gets an id and total_birds_seen stays 0.         *)
C7_StationaryDropped ==
    /\ tracker.temporal_filter_enabled =>
          \A e \in Range(last.probationary_matched) :
              (e.frames >= tracker.min_confirm_frames
               /\ ~Moved(e, tracker.min_move_distance))
              => /\ e.outcome = "dropped"
                 /\ e.id = -1
                 /\ ~Has(tracker.probationary, e.pid)
                 /\ ~Has(tracker.probationary_frames, e.pid)
                 /\ Len(ids_issued(last)) = Cardinality(Promoted(last))
    /\ script.name = "stationary" =>
          /\ issued = <<>>
          /\ tracker.next_object_id = 0
          /\ tracker.total_birds_seen = 0

\* the stationary blob has been dropped at its 10th frame
C7_Witness ==
    /\ script.name = "stationary"
    /\ frame = 10
    /\ Dropped(last) # {}

(* C8 as stated: a pair chosen by the solver is accepted only at a        *)
(* distance below max_distance; the track of a rejected pair keeps its    *)
(* position and is aged, and the detection of a rejected pair spawns a    *)
(* new track that takes over no issued id.                                *)
C8_RejectedAlwaysSpawns ==
    [][ /\ \A p \in last'.confirmed_matched \cup Range(last'.probationary_matched) :
              p.dist < tracker.max_distance
        /\ \A p \in last'.confirmed_rejected :
              /\ p.dist >= tracker.max_distance
              /\ p.id \in last'.confirmed_aged
              /\ Has(tracker'.objects, p.id) =>
                    Get(tracker'.objects, p.id) = Get(tracker.objects, p.id)
              /\ p.det \in SpawnedDets(last')
        /\ \A p \in last'.probationary_rejected :
              /\ p.dist >= tracker.max_distance
              /\ p.pid \in last'.probationary_aged
              /\ Has(tracker'.probationary, p.pid) =>
                    Get(tracker'.probationary, p.pid) = Get(tracker.probationary, p.pid)
              /\ p.det \in SpawnedDets(last')
        /\ \A e \in Range(last'.spawned) :
              IF tracker.temporal_filter_enabled
              THEN e.id = -1 /\ ~Has(tracker.probationary, e.pid)
              ELSE e.id \notin Range(issued) /\ Has(tracker'.objects, e.id)
      ]_vars

(* C8 as amended: as stated, except that the detection of a pair rejected *)
(* in Phase A stays unclaimed in Phase A only: with the temporal filter   *)
(* it is still offered to the probationary tracks in Phase B, and it      *)
(* spawns a new track if Phase B does not claim it either.                *)
C8_RejectedUnclaimedInItsPhase ==
    [][ /\ \A p \in last'.confirmed_matched \cup Range(last'.probationary_matched) :
              p.dist < tracker.max_distance
        /\ \A p \in last'.confirmed_rejected :
              /\ p.dist >= tracker.max_distance
              /\ p.id \in last'.confirmed_aged
              /\ Has(tracker'.objects, p.id) =>
                    Get(tracker'.objects, p.id) = Get(tracker.objects, p.id)
              /\ p.det \notin {q.det : q \in last'.confirmed_matched}
              /\ \/ p.det \in SpawnedDets(last')
                 \/ /\ tracker.temporal_filter_enabled
                    /\ p.det \in {q.det : q \in Range(last'.probationary_matched)}
        /\ \A p \in last'.probationary_rejected :
              /\ p.dist >= tracker.max_distance
              /\ p.pid \in last'.probationary_aged
              /\ Has(tracker'.probationary, p.pid) =>
                    Get(tracker'.probationary, p.pid) = Get(tracker.probationary, p.pid)
              /\ p.det \in SpawnedDets(last')
        /\ \A e \in Range(last'.spawned) :
              IF tracker.temporal_filter_enabled
              THEN e.id = -1 /\ ~Has(tracker.probationary, e.pid)
              ELSE e.id \notin Range(issued) /\ Has(tracker'.objects, e.id)
      ]_vars

\* a pair at exactly max_distance was rejected and its detection spawned a track
C8_Witness ==
    \E p \in last.confirmed_rejected \cup last.probationary_rejected :
        /\ p.dist = tracker.max_distance
        /\ p.det \in SpawnedDets(last)

(* C9: every confirmed track is either matched, and then has miss count   *)
(* 0, or has its miss count raised by exactly one; it is deregistered in  *)
(* the update that raises the count above max_disappeared, and stays      *)
(* tracked until then.                                                    *)
C9_ConfirmedAging ==
    [][ /\ MatchedIds(last') \cup last'.confirmed_aged = KeySet(tracker.objects)
        /\ MatchedIds(last') \cap last'.confirmed_aged = {}
        /\ \A id \in MatchedIds(last') :
              Has(tracker'.objects, id) /\ Get(tracker'.disappeared, id) = 0
        /\ \A id \in last'.confirmed_aged :
              IF Get(tracker.disappeared, id) + 1 > tracker.max_disappeared
              THEN ~Has(tracker'.objects, id) /\ ~Has(tracker'.disappeared, id)
              ELSE /\ Has(tracker'.objects, id)
                   /\ Get(tracker'.disappeared, id) = Get(tracker.disappeared, id) + 1
        /\ \A id \in KeySet(tracker'.objects) :
              Get(tracker'.disappeared, id) <= tracker.max_disappeared
      ]_vars

\* a track that had been missed max_disappeared >= 1 times is deregistered
C9_Witness ==
    /\ tracker.max_disappeared >= 1
    /\ \E id \in last.confirmed_aged : ~Has(tracker.objects, id)

(* C10: with the temporal filter, every probationary track not matched in *)
(* an update has its miss count raised by exactly one in it, whatever the *)
(* detections and whether or not Phase B ran, and is dropped, without an  *)
(* id, when the count exceeds 5; a track spawned by the update has miss   *)
(* count 0.                                                               *)
C10_ProbationaryAging ==
    [][ tracker.temporal_filter_enabled =>
          /\ last'.probationary_aged = KeySet(tracker.probationary) \ MatchedPids(last')
          /\ \A pid \in last'.probationary_aged :
                IF Get(tracker.probationary_disappeared, pid) + 1 > probationary_max_disappeared
                THEN ~Has(tracker'.probationary, pid)
                ELSE /\ Has(tracker'.probationary, pid)
                     /\ Get(tracker'.probationary_disappeared, pid) =
                            Get(tracker.probationary_disappeared, pid) + 1
          /\ \A e \in Range(last'.spawned) :
                /\ ~Has(tracker.probationary, e.pid)
                /\ Get(tracker'.probationary_disappeared, e.pid) = 0
          /\ tracker'.next_object_id =
                tracker.next_object_id + Cardinality(Promoted(last'))
      ]_vars

\* a candidate is dropped by aging in an update that had detections
C10_Witness ==
    /\ tracker.temporal_filter_enabled
    /\ last.input # <<>>
    /\ \E pid \in last.probationary_aged : ~Has(tracker.probationary, pid)

(* C11 as stated: a candidate seen once at frame 1 and followed by frames  *)
(* without detections is gone by frame 6, and no id is issued.             *)
C11_LeakDroppedByFrame6 ==
    script.name = "leak" =>
        /\ issued = <<>>
        /\ frame >= 6 => tracker.probationary = <<>>

(* C11 as amended: the candidate seen once at frame 1 is aged once in each *)
(* of the frames 2..7 that have no detections; it is still held, with miss *)
(* count 5, after frame 6 and is dropped at frame 7, when the count        *)
(* exceeds 5; no id is issued.                                             *)
C11_LeakDroppedAtFrame7 ==
    script.name = "leak" =>
        /\ issued = <<>>
        /\ tracker.objects = <<>>
        /\ (frame >= 1 /\ frame <= 6) =>
              /\ KeySet(tracker.probationary) = {0}
              /\ Get(tracker.probationary_disappeared, 0) = frame - 1
        /\ frame >= 7 =>
              /\ tracker.probationary = <<>>
              /\ tracker.probationary_disappeared = <<>>
              /\ tracker.probationary_trajectories = <<>>

\* the update of frame 7 has dropped the candidate
C11_Witness ==
    /\ script.name = "leak"
    /\ frame = 7
    /\ last.probationary_aged = {0}
    /\ tracker.probationary = <<>>

(* C12: with the temporal filter, each detection that Phases A and B left  *)
(* unclaimed creates exactly one probationary track in the update, with    *)
(* frames_observed 1, miss count 0, position and initial position at the   *)
(* detection and a path of that one point; a claimed detection creates no  *)
(* track; and a confirmed track is created by a promotion only.            *)
C12_UnclaimedSpawnsProbationary ==
    [][ tracker.temporal_filter_enabled =>
          LET claimed == {q.det : q \in last'.confirmed_matched}
                           \cup {q.det : q \in Range(last'.probationary_matched)}
              unclaimed == range(Len(last'.input)) \ claimed
              created == {e.pid : e \in Range(last'.spawned)}
          IN /\ SpawnedDets(last') = unclaimed
             /\ Len(last'.spawned) = Cardinality(unclaimed)
             /\ Cardinality(created) = Cardinality(unclaimed)
             /\ created \cap KeySet(tracker.probationary) = {}
             /\ KeySet(tracker'.probationary) \ KeySet(tracker.probationary) = created
             /\ Len(tracker'.probationary) = Cardinality(KeySet(tracker'.probationary))
             /\ \A e \in Range(last'.spawned) :
                   /\ e.id = -1
                   /\ Get(tracker'.probationary, e.pid) = last'.input[e.det + 1]
                   /\ Get(tracker'.probationary_initial, e.pid) = last'.input[e.det + 1]
                   /\ Get(tracker'.probationary_frames, e.pid) = 1
                   /\ Get(tracker'.probationary_disappeared, e.pid) = 0
                   /\ Get(tracker'.probationary_trajectories, e.pid) = <<last'.input[e.det + 1]>>
             /\ KeySet(tracker'.objects) \ KeySet(tracker.objects)
                   = {e.id : e \in Promoted(last')}
      ]_vars

\* one detection was claimed by a confirmed track and another spawned a candidate
C12_Witness ==
    /\ tracker.temporal_filter_enabled
    /\ last.confirmed_matched # {}
    /\ last.spawned # <<>>

\* the confirmed tracks whose position is the centroid c
TracksAt(t, c) == {id \in KeySet(t.objects) : Get(t.objects, id) = c}

(* C13 as stated: with the temporal filter off there is never a            *)
(* probationary track; each detection is either accepted for an existing   *)
(* confirmed track or becomes a confirmed track with a fresh id in the     *)
(* same update; and after the update each detection centroid is the        *)
(* position of exactly one confirmed track.                                *)
C13_LegacyOneTrackPerCentroid ==
    [][ ~tracker.temporal_filter_enabled =>
          /\ tracker'.probationary = <<>>
          /\ tracker'.next_probationary_id = 0
          /\ \A det \in range(Len(last'.input)) :
                /\ \/ \E q \in last'.confirmed_matched :
                         q.det = det /\ Get(tracker'.objects, q.id) = last'.input[det + 1]
                   \/ \E e \in Range(last'.spawned) :
                         /\ e.det = det
                         /\ e.id \notin Range(issued)
                         /\ Get(tracker'.objects, e.id) = last'.input[det + 1]
                /\ Cardinality(TracksAt(tracker', last'.input[det + 1])) = 1
      ]_vars

(* C13 as amended: with the temporal filter off there is never a           *)
(* probationary track; each detection is either accepted for exactly one   *)
(* existing confirmed track or becomes exactly one confirmed track with a  *)
(* fresh id in the same update, and that track is at the detection's       *)
(* centroid after the update; an unmatched track may remain at the same    *)
(* centroid.                                                               *)
C13_LegacyEveryDetectionTracked ==
    [][ ~tracker.temporal_filter_enabled =>
          /\ tracker'.probationary = <<>>
          /\ tracker'.probationary_frames = <<>>
          /\ tracker'.next_probationary_id = 0
          /\ last'.probationary_matched = <<>>
          /\ \A det \in range(Len(last'.input)) :
                LET owners == {q.id : q \in {m \in last'.confirmed_matched : m.det = det}}
                    fresh == {e.id : e \in {n \in Range(last'.spawned) : n.det = det}}
                IN /\ Cardinality(owners \cup fresh) = 1
                   /\ owners \subseteq KeySet(tracker.objects)
                   /\ fresh \cap Range(issued) = {}
                   /\ fresh \subseteq Range(issued')
                   /\ \A id \in owners \cup fresh :
                         Get(tracker'.objects, id) = last'.input[det + 1]
                   /\ Cardinality(TracksAt(tracker', last'.input[det + 1])) >= 1
          /\ Cardinality({q.id : q \in last'.confirmed_matched})
                + Len(last'.spawned) = Len(last'.input)
      ]_vars

\* a detection was accepted for one track while an unmatched track stays at
\* its centroid, and another detection became a track with a fresh id
C13_Witness ==
    /\ ~tracker.temporal_filter_enabled
    /\ last.spawned # <<>>
    /\ \E q \in last.confirmed_matched :
          Cardinality(TracksAt(tracker, last.input[q.det + 1])) = 2

\* the number of frames without detections that end the run so far
EmptyTail == frame - (Len(script.stream) + (IF script.free THEN MaxFrames ELSE 0))

(* C14: in either mode, once more than max_disappeared consecutive frames  *)
(* without detections have been fed, from whatever state the tracker was   *)
(* in, no confirmed track is left; and an update without detections issues *)
(* no id: next_object_id and total_birds_seen keep their values.           *)
C14_EmptyStreamClears ==
    /\ [](EmptyTail > tracker.max_disappeared =>
            tracker.objects = <<>> /\ tracker.disappeared = <<>>)
    /\ [][ last'.input = <<>> =>
             /\ tracker'.next_object_id = tracker.next_object_id
             /\ tracker'.total_birds_seen = tracker.total_birds_seen
             /\ issued' = issued
             /\ KeySet(tracker'.objects) \subseteq KeySet(tracker.objects)
         ]_vars

\* a track matched in the last frame with detections is deregistered by the
\* (max_disappeared + 1)-th frame without detections
C14_Witness ==
    /\ tracker.max_disappeared >= 1
    /\ EmptyTail = tracker.max_disappeared + 1
    /\ last.confirmed_aged # {}
    /\ tracker.objects = <<>>
    /\ tracker.next_object_id >= 1

(* C15: total_birds never decreases from one frame to the next, equals the *)
(* number of distinct ids that have ever been in the confirmed map, and is *)
(* never below current_birds.                                              *)
C15_StatisticsInvariants ==
    /\ [](LET stats == get_statistics(tracker)
          IN /\ stats.total_birds_seen = Cardinality(Range(issued))
             /\ stats.current_birds = Cardinality(KeySet(tracker.objects))
             /\ stats.current_birds <= stats.total_birds_seen)
    /\ [][ /\ get_statistics(tracker').total_birds_seen
                >= get_statistics(tracker).total_birds_seen
           /\ KeySet(tracker'.objects) \ KeySet(tracker.objects)
                = Range(issued') \ Range(issued)
         ]_vars

\* ids have been issued and some of their tracks are gone
C15_Witness ==
    /\ get_statistics(tracker).total_birds_seen >= 2
    /\ get_statistics(tracker).current_birds = 1

\* the lines written since the last "started"
RECURSIVE SinceStarted(_)
SinceStarted(out) ==
    IF out = <<>> \/ out[Len(out)].type = "started" THEN <<>>
    ELSE Append(SinceStarted(SubSeq(out, 1, Len(out) - 1)), out[Len(out)])

\* the report that the source could not be opened
CannotOpen(m) ==
    m.type \in {"error", "stderr"} /\ m.message = "Cannot open video file"

\* the streaming process has returned from process_video_stream, called on a
\* source that opened, and waits for its next command
BackFromVideo ==
    /\ ipc.mode = "ipc"
    /\ ipc.pc = "idle"
    /\ ipc.commands > 0
    /\ ~(SinceStarted(ipc.out) # <<>> /\ CannotOpen(SinceStarted(ipc.out)[1]))

(* C16: in streaming mode, a start command on a source that opens writes   *)
(* "started", then one frame_data line per frame read, numbered from 1,    *)
(* then "completed" with the results, and nothing else.                    *)
C16_StartedFramesCompleted ==
    BackFromVideo =>
        LET lines == SinceStarted(ipc.out)
        IN /\ Len(lines) = ipc.frame_num + 1
           /\ \A n \in 1..(Len(lines) - 1) :
                 lines[n].type = "frame_data" /\ lines[n].frame = n
           /\ lines[Len(lines)].type = "completed"
           /\ lines[Len(lines)].results = ipc.processing_stats

(* C17: once a stop command has arrived on stdin while a video is being    *)
(* processed, the frame loop pulls no further frame and the tracker is     *)
(* not updated again.                                                      *)
C17_StopEndsFrameLoop ==
    [][ (ipc.pc = "loop" /\ ipc.stdin # <<>>) =>
            /\ ipc'.frame_num = ipc.frame_num
            /\ tracker' = tracker
      ]_vars

(* C18: when the processing of a frame raises, the tracker, which the      *)
(* streaming process keeps for its next command, is left as it was after   *)
(* the frame before.                                                       *)
C18_FailedFrameLeavesTracker ==
    [][ ( /\ ipc.mode = "ipc"
          /\ ipc'.frame_num = ipc.frame_num + 1
          /\ Len(ipc'.out) > Len(ipc.out)
          /\ ipc'.out[Len(ipc'.out)].type \in {"error", "stderr"} )
        => tracker' = tracker
      ]_vars

C20_DecodeFailureCompletes ==
    BackFromVideo =>
        LET m == ipc.out[Len(ipc.out)]
        IN /\ ipc.video = <<>>
           /\ ipc.cap = "released"
           /\ m.type = "completed"
           /\ m.results.processed_frames = ipc.frame_num
           /\ m.results.total_unique_birds =
                 (IF ipc.frame_num = 0 THEN 0 ELSE tracker.total_birds_seen)

\* the squared distance of two centroids
dist2(a, b) == (a[1] - b[1]) * (a[1] - b[1]) + (a[2] - b[2]) * (a[2] - b[2])

\* a stream of two objects, both detected in every frame in the same order,
\* that are at least `gap` apart in every frame
TwoObjects(stream, gap) ==
    /\ Len(stream) >= 2
    /\ \A n \in DOMAIN stream :
          Len(stream[n]) = 2 /\ dist2(stream[n][1], stream[n][2]) >= gap * gap

\* each object of the stream moves less than `step` from a frame to the next
StepsBelow(stream, step) ==
    \A n \in 1..(Len(stream) - 1) : \A k \in 1..2 :
        dist2(stream[n][k], stream[n + 1][k]) < step * step

\* the two ids exist and each is at the detection of its own object
FollowsOwnObject ==
    /\ issued = <<0, 1>>
    /\ Keys(tracker.objects) = <<0, 1>>
    /\ Get(tracker.objects, 0) = last.input[1]
    /\ Get(tracker.objects, 1) = last.input[2]

\* the frames of a crossing run in which both tracks are confirmed
BothConfirmed ==
    /\ frame <= Len(script.stream)
    /\ frame >= (IF script.cfg.enabled THEN script.cfg.min_confirm_frames ELSE 1)

(* C21 as stated: two objects at least 30 px apart in every frame, both    *)
(* detected in every frame, max_distance = 50: exactly two ids exist, both *)
(* persist, and each id stays with its own object.                         *)
C21_CrossingNeverSwaps ==
    (script.cfg.max_distance = 50 * Scale /\ TwoObjects(script.stream, 30) /\ BothConfirmed)
        => FollowsOwnObject

(* C21 as amended: as stated, provided each object moves less than 15 px   *)
(* (half the separation) per frame; and every update that matches          *)
(* confirmed tracks uses an assignment of minimum total distance, so two   *)
(* objects that move 40 px per frame to within 30 px of where the other    *)
(* was have their ids exchanged.                                           *)
C21_SlowCrossingNeverSwaps ==
    /\ (script.cfg.max_distance = 50 * Scale /\ TwoObjects(script.stream, 30)
         /\ StepsBelow(script.stream, 15) /\ BothConfirmed)
           => FollowsOwnObject
    /\ (script.name = "crossing-fast" /\ frame = 2) =>
           /\ issued = <<0, 1>>
           /\ Get(tracker.objects, 0) = last.input[2]
           /\ Get(tracker.objects, 1) = last.input[1]

\* the slow objects have passed each other and both ids were matched
C21_Witness ==
    /\ script.cfg.max_distance = 50 * Scale
    /\ StepsBelow(script.stream, 15)
    /\ frame = 4
    /\ last.input[1][1] > last.input[2][1]
    /\ MatchedIds(last) = {0, 1}

\* the ids of the objects of a frame record
IdsInRecord(m) == {m.objects[i].id : i \in DOMAIN m.objects}

\* all frame records written so far
AllFrameRecords == SelectSeq(ipc.out, LAMBDA m : m.type = "frame_data")

(* C22: in streaming mode every id the tracker has issued is in the frame   *)
(* record of the frame that issued it, so in a record before the first     *)
(* frame in which it is absent; and an id that was in a record and is      *)
(* absent from the next max_disappeared records is in no later record.     *)
C22_EmittedIdLifecycle ==
    LET records == AllFrameRecords
    IN ipc.mode = "ipc" =>
       /\ \A id \in Range(issued) :
             \E n \in DOMAIN records : id \in IdsInRecord(records[n])
       /\ \A id \in Range(issued) : \A n, m \in DOMAIN records :
             ( /\ m > n + tracker.max_disappeared
               /\ id \in IdsInRecord(records[n])
               /\ \A k \in (n + 1)..(n + tracker.max_disappeared) :
                     id \notin IdsInRecord(records[k]) )
             => id \notin IdsInRecord(records[m])

\* the candidates promoted by an update, in the order of their promotion
PromotedSeq(log) == SelectSeq(log.probationary_matched, LAMBDA e : e.outcome = "promoted")

(* C23: with the temporal filter, the confirmed map and the statistics     *)
(* hold confirmed tracks only: every key is an issued id, current_birds    *)
(* counts the confirmed map and total_birds_seen the ids issued; the k-th  *)
(* promotion of an update takes the k-th unused confirmed id, whatever the *)
(* candidate's probationary id; and dropping a probationary track changes  *)
(* neither the confirmed map nor next_object_id nor total_birds_seen: the  *)
(* counters advance by the number of promotions only.                      *)
C23_ProbationaryNotObservable ==
    /\ [](tracker.temporal_filter_enabled =>
            /\ KeySet(tracker.objects) \subseteq Range(issued)
            /\ KeySet(tracker.disappeared) = KeySet(tracker.objects)
            /\ KeySet(tracker.trajectories) = KeySet(tracker.objects)
            /\ get_statistics(tracker).current_birds = Cardinality(KeySet(tracker.objects))
            /\ get_statistics(tracker).total_birds_seen = Len(issued)
            /\ \A pid \in KeySet(tracker.probationary) :
                  LET t == deregister_probationary(tracker, pid)
                  IN /\ ~Has(t.probationary, pid)
                     /\ t.objects = tracker.objects
                     /\ t.disappeared = tracker.disappeared
                     /\ t.trajectories = tracker.trajectories
                     /\ t.next_object_id = tracker.next_object_id
                     /\ t.total_birds_seen = tracker.total_birds_seen
                     /\ get_statistics(t) = get_statistics(tracker))
    /\ [][ tracker.temporal_filter_enabled =>
             LET promoted == PromotedSeq(last')
             IN /\ \A k \in DOMAIN promoted :
                      /\ promoted[k].id = tracker.next_object_id + k - 1
                      /\ promoted[k].id \notin Range(issued)
                      /\ Has(tracker.probationary, promoted[k].pid)
                      /\ ~Has(tracker'.probationary, promoted[k].pid)
                      /\ Get(tracker'.objects, promoted[k].id) = promoted[k].pos
                /\ tracker'.next_object_id = tracker.next_object_id + Len(promoted)
                /\ tracker'.total_birds_seen = tracker.total_birds_seen + Len(promoted)
                /\ KeySet(tracker'.objects) \ KeySet(tracker.objects)
                      = {promoted[k].id : k \in DOMAIN promoted}
                /\ \A id \in KeySet(tracker'.objects) \cap KeySet(tracker.objects) :
                      id \notin MatchedIds(last') =>
                         Get(tracker'.objects, id) = Get(tracker.objects, id)
         ]_vars

\* a candidate was promoted to an id other than its probationary id in an
\* update that dropped another candidate
C23_Witness ==
    /\ \E e \in Promoted(last) : e.pid # e.id
    /\ Dropped(last) # {}

\* the detection a confirmed track was matched to by the update of log
MatchOf(log, id) == CHOOSE q \in log.confirmed_matched : q.id = id

\* the ids given to new confirmed tracks by the update of log
NewIds(log) == Range(ids_issued(log))

(* C24: the trajectory of every confirmed track holds between 1 and 30     *)
(* centroids and ends with the track's position; a new track starts with   *)
(* the one centroid it was confirmed at; a match appends the matched       *)
(* centroid, evicting the oldest entry if there were 30 already; a miss    *)
(* leaves the trajectory as it was; and get_trajectory of an id that is    *)
(* not, or no longer, confirmed is the empty list.                         *)
C24_TrajectoryFifo ==
    /\ []( /\ \A id \in KeySet(tracker.objects) :
                 LET trajectory == get_trajectory(tracker, id)
                 IN /\ Len(trajectory) >= 1
                    /\ Len(trajectory) <= 30
                    /\ trajectory[Len(trajectory)] = Get(tracker.objects, id)
           /\ \A id \in 0..tracker.next_object_id :
                 id \notin KeySet(tracker.objects) => get_trajectory(tracker, id) = <<>> )
    /\ [][ /\ \A id \in NewIds(last') :
                 Has(tracker'.objects, id) =>
                    get_trajectory(tracker', id) = <<Get(tracker'.objects, id)>>
           /\ \A id \in MatchedIds(last') :
                 LET old == get_trajectory(tracker, id)
                     c == last'.input[MatchOf(last', id).det + 1]
                 IN get_trajectory(tracker', id) =
                        IF Len(old) = 30 THEN Tail(old) \o <<c>> ELSE Append(old, c)
           /\ \A id \in last'.confirmed_aged :
                 Has(tracker'.objects, id) =>
                    get_trajectory(tracker', id) = get_trajectory(tracker, id)
         ]_vars

\* the 32nd centroid of a track has been appended: the first two are gone
C24_Witness ==
    /\ MatchedIds(last) = {0}
    /\ frame = 32
    /\ Len(get_trajectory(tracker, 0)) = 30
    /\ get_trajectory(tracker, 0)[1] = <<3, 0>>
    /\ get_trajectory(tracker, 0)[30] = <<32, 0>>

(* C25: filter_contours returns, in the order of its input, the bounding   *)
(* rectangles of exactly the contours whose area is between                *)
(* min_contour_area and max_contour_area, both included, and that pass the *)
(* horizon gate: with the spatial filter enabled and configured value v, a *)
(* rectangle passes iff cy = y + h div 2 is strictly less than             *)
(* floor(H * min(1, max(0, v))); with the filter disabled no rectangle     *)
(* inside the frame is rejected on position.                               *)
C25_FilterContoursExact ==
    LET H == detector.frame_height
        v == detector.config.horizon_line_percent
        p == Min(100, Max(0, v))
        passes(c) ==
            /\ detector.config.min_contour_area <= c.area
            /\ c.area <= detector.config.max_contour_area
            /\ detector.config.enabled =>
                  c.rect[2] + c.rect[4] \div 2 < (H * p) \div 100
        kept == SelectSeq(detector.contours, passes)
    IN detector.returned =>
          detector.valid_boxes = [i \in DOMAIN kept |-> kept[i].rect]

\* a sequence of integers in strictly ascending order
Ascending(s) == \A m, n \in DOMAIN s : m < n => s[m] < s[n]

(* C26: iterating the confirmed map yields the ids in strictly ascending   *)
(* order, and so do the miss-count map and the trajectories; an update     *)
(* keeps the tracks it does not deregister in their order, whether or not  *)
(* it changes their position; and every id an update issues is greater     *)
(* than every id issued in an earlier frame, so of two confirmed ids the   *)
(* smaller was confirmed no later than the greater.                        *)
C26_ConfirmedMapOrder ==
    /\ []( /\ Ascending(Keys(tracker.objects))
           /\ Keys(tracker.disappeared) = Keys(tracker.objects)
           /\ Keys(tracker.trajectories) = Keys(tracker.objects)
           /\ Ascending(issued) )
    /\ [][ /\ SelectSeq(Keys(tracker'.objects), LAMBDA id : Has(tracker.objects, id))
                = SelectSeq(Keys(tracker.objects), LAMBDA id : Has(tracker'.objects, id))
           /\ \A new \in NewIds(last') : \A old \in Range(issued) : old < new
           /\ \A new \in NewIds(last') : \A old \in KeySet(tracker.objects) : old < new
         ]_vars

\* two tracks confirmed in different frames; the older one has just moved
C26_Witness ==
    /\ Len(tracker.objects) >= 2
    /\ NewIds(last) = {}
    /\ \E q \in last.confirmed_matched :
          /\ q.id = Keys(tracker.objects)[1]
          /\ q.dist > 0
    /\ \E m, n \in DOMAIN issued :
          /\ issued[m] = Keys(tracker.objects)[1]
          /\ issued[n] = Keys(tracker.objects)[2]
          /\ m < n

(* C27: when the streaming process starts on a video, no frame of it read  *)
(* yet, the tracker is as new: no confirmed track, no probationary track,  *)
(* and next_object_id, next_probationary_id and total_birds_seen at zero,  *)
(* whatever videos were processed before.                                  *)
C27_FreshTrackerPerVideo ==
    (ipc.mode = "ipc" /\ ipc.pc = "loop" /\ ipc.frame_num = 0) =>
        /\ tracker.objects = <<>>
        /\ tracker.disappeared = <<>>
        /\ tracker.trajectories = <<>>
        /\ tracker.probationary = <<>>
        /\ tracker.next_object_id = 0
        /\ tracker.next_probationary_id = 0
        /\ tracker.total_birds_seen = 0
        /\ get_statistics(tracker) = [current_birds |-> 0, total_birds_seen |-> 0]

(* C29: a confirmed track that an update does not match keeps its position *)
(* and trajectory and has its miss count raised by one, or is              *)
(* deregistered; and an update without detections matches no track,        *)
(* creates no track, leaves the position, initial position, path and       *)
(* frames_observed of every probationary track it keeps as they were, and  *)
(* leaves next_object_id, next_probationary_id and total_birds_seen        *)
(* unchanged.                                                              *)
C29_UnmatchedOnlyAged ==
    [][ /\ \A id \in last'.confirmed_aged :
              IF Has(tracker'.objects, id)
              THEN /\ Get(tracker'.objects, id) = Get(tracker.objects, id)
                   /\ get_trajectory(tracker', id) = get_trajectory(tracker, id)
                   /\ Get(tracker'.disappeared, id) = Get(tracker.disappeared, id) + 1
              ELSE /\ ~Has(tracker'.disappeared, id)
                   /\ get_trajectory(tracker', id) = <<>>
        /\ last'.input = <<>> =>
              /\ last'.confirmed_aged = KeySet(tracker.objects)
              /\ last'.confirmed_matched = {}
              /\ last'.probationary_matched = <<>>
              /\ last'.spawned = <<>>
              /\ KeySet(tracker'.objects) \subseteq KeySet(tracker.objects)
              /\ KeySet(tracker'.probationary) \subseteq KeySet(tracker.probationary)
              /\ \A pid \in KeySet(tracker'.probationary) :
                    /\ Get(tracker'.probationary, pid) = Get(tracker.probationary, pid)
                    /\ Get(tracker'.probationary_initial, pid)
                          = Get(tracker.probationary_initial, pid)
                    /\ Get(tracker'.probationary_trajectories, pid)
                          = Get(tracker.probationary_trajectories, pid)
                    /\ Get(tracker'.probationary_frames, pid)
                          = Get(tracker.probationary_frames, pid)
              /\ tracker'.next_object_id = tracker.next_object_id
              /\ tracker'.next_probationary_id = tracker.next_probationary_id
              /\ tracker'.total_birds_seen = tracker.total_birds_seen
      ]_vars

\* an update without detections has aged a confirmed track and a candidate,
\* and both are still held
C29_Witness ==
    /\ last.input = <<>>
    /\ \E id \in last.confirmed_aged :
          Has(tracker.objects, id) /\ Len(get_trajectory(tracker, id)) >= 2
    /\ \E pid \in last.probationary_aged : Has(tracker.probationary, pid)

\* the detection indices claimed by confirmed tracks in the update of log
ClaimedByConfirmed(log) == {q.det : q \in log.confirmed_matched}

\* the distances from the tracks of the map d to the centroids at the
\* detection indices `columns`
DistancesTo(d, input_centroids, columns) ==
    [r \in DOMAIN d |->
        [k \in DOMAIN columns |-> norm(Sub(d[r].v, input_centroids[columns[k] + 1]))]]

(* C30: with the temporal filter, the pairs Phase B considers are pairs of *)
(* a probationary track and a detection index not claimed in Phase A; the  *)
(* columns of its cost matrix are those indices in ascending order; the    *)
(* distance of a pair is the distance from the track to the centroid of    *)
(* that original index; an accepted pair puts the track (or the confirmed  *)
(* track it is promoted to) at that centroid; no two accepted pairs share  *)
(* an index; and an index claimed in either phase spawns no track.         *)
C30_PhaseBOnUnclaimed ==
    [][ tracker.temporal_filter_enabled =>
          LET pairs == Range(last'.probationary_matched) \cup last'.probationary_rejected
              unclaimed == range(Len(last'.input)) \ ClaimedByConfirmed(last')
          IN /\ \A e \in pairs :
                   /\ e.det \in unclaimed
                   /\ Has(tracker.probationary, e.pid)
                   /\ e.dist = norm(Sub(last'.input[e.det + 1],
                                        Get(tracker.probationary, e.pid)))
             /\ \A e \in Range(last'.probationary_matched) :
                   /\ e.pos = last'.input[e.det + 1]
                   /\ e.outcome = "kept" =>
                         Get(tracker'.probationary, e.pid) = last'.input[e.det + 1]
                   /\ e.outcome = "promoted" =>
                         Get(tracker'.objects, e.id) = last'.input[e.det + 1]
                   /\ e.det \notin SpawnedDets(last')
             /\ \A m, n \in DOMAIN last'.probationary_matched :
                   m # n => last'.probationary_matched[m].det
                               # last'.probationary_matched[n].det
             /\ SpawnedDets(last') \cap ClaimedByConfirmed(last') = {}
             /\ LET used == ClaimedByConfirmed(last')
                     columns == remaining_indices(last'.input, used)
                     distances == phase3_distances(tracker, last'.input, used)
                 IN /\ Range(columns) = unclaimed
                    /\ Ascending(columns)
                    /\ pairs # {} =>
                          distances = DistancesTo(tracker.probationary, last'.input, columns)
      ]_vars

\* Phase A claimed detection 0, and Phase B matched a candidate to a later
\* detection, whose column in the Phase B matrix is not its index
C30_Witness ==
    /\ tracker.temporal_filter_enabled
    /\ 0 \in ClaimedByConfirmed(last)
    /\ \E e \in Range(last.probationary_matched) : e.det >= 1

-----------------------------------------------------------------------------
\* a step on which the frame pipeline is left: the frame loop ends, or the
\* source could not be opened
LeavesLoop == ipc.pc = "loop" /\ ipc'.pc # "loop"
OpenFails == Len(ipc'.out) > Len(ipc.out) /\ CannotOpen(ipc'.out[Len(ipc'.out)])

(* C31 as stated: the video source is released on every exit path of the   *)
(* frame pipeline: end of stream, an exception raised while a frame is     *)
(* processed, and the failure to open the input.                           *)
C31_ReleasedOnEveryExit ==
    [][ (LeavesLoop \/ OpenFails) => ipc'.cap = "released" ]_vars

(* C31 as amended: the video source is released on every exit path of the  *)
(* frame loop (end of stream, an exception raised while a frame is         *)
(* processed), and no source is open outside the frame loop; when the      *)
(* input cannot be opened the exception is raised before the try block,    *)
(* release() is not called and the capture is left as it was.              *)
C31_ReleasedOnLoopExit ==
    /\ [](ipc.pc # "loop" => ipc.cap # "open")
    /\ [][ /\ LeavesLoop => ipc'.cap = "released"
           /\ OpenFails => (ipc'.cap = ipc.cap /\ ipc.pc # "loop")
         ]_vars

\* the streaming process has left the pipeline at the end of a stream, on
\* an exception and on an open failure
C31_Witness ==
    /\ ipc.mode = "ipc"
    /\ ipc.pc = "idle"
    /\ ipc.cap = "released"
    /\ \E i, j, k \in DOMAIN ipc.out :
          /\ ipc.out[i].type = "completed"
          /\ ipc.out[j].type = "error" /\ ~CannotOpen(ipc.out[j])
          /\ CannotOpen(ipc.out[k])

-----------------------------------------------------------------------------
\* what a caller can observe of a tracker: the map update() returns, the
\* statistics and the trajectories
Observable(t) ==
    [objects |-> t.objects, statistics |-> get_statistics(t),
     trajectories |-> [id \in KeySet(t.objects) |-> get_trajectory(t, id)]]

\* a step that is a call of reset()
ResetCalled == frame' = frame /\ last' = NoLog(<<>>) /\ tracker' = reset(tracker)

(* C32: reset() returns the tracker to its initial state: after it there   *)
(* are no confirmed and no probationary tracks, the id counter and         *)
(* total_birds_seen are 0, the trajectories are empty, and on any next     *)
(* list of detections update() returns what a freshly constructed tracker  *)
(* with the same configuration returns.                                    *)
C32_ResetIsFresh ==
    [][ ResetCalled =>
          /\ tracker'.objects = <<>>
          /\ tracker'.probationary = <<>>
          /\ tracker'.next_object_id = 0
          /\ tracker'.total_birds_seen = 0
          /\ tracker'.trajectories = <<>>
          /\ \A input_centroids \in Detections :
                {Observable(r.t) : r \in update(tracker', input_centroids)}
                  = {Observable(r.t) : r \in update(Tracker(script.cfg), input_centroids)}
      ]_vars

-----------------------------------------------------------------------------
\* the detection indices the tracks of an update were given
DetsOf(entries) == {e.det : e \in entries}

(* C33: within one update the matching is one-to-one across both phases:   *)
(* no detection index is claimed by more than one track, confirmed or      *)
(* probationary, no track is updated from more than one detection, a       *)
(* detection accepted for a confirmed track is never offered to a          *)
(* probationary track, a detection that spawns a track was claimed by      *)
(* none, and the tracks updated and the tracks spawned together are no     *)
(* more than the detections.                                               *)
C33_OneToOneMatching ==
    LET cm == last.confirmed_matched
        pm == last.probationary_matched
        sp == last.spawned
    IN /\ \A p, q \in cm : (p.det = q.det \/ p.id = q.id) => p = q
       /\ \A i, j \in DOMAIN pm :
             (pm[i].det = pm[j].det \/ pm[i].pid = pm[j].pid) => i = j
       /\ \A i, j \in DOMAIN sp : sp[i].det = sp[j].det => i = j
       /\ DetsOf(cm) \cap DetsOf(Range(pm)) = {}
       /\ DetsOf(cm) \cap DetsOf(last.probationary_rejected) = {}
       /\ DetsOf(Range(sp)) \cap (DetsOf(cm) \cup DetsOf(Range(pm))) = {}
       /\ DetsOf(cm) \cup DetsOf(Range(pm)) \cup DetsOf(Range(sp))
             \subseteq range(Len(last.input))
       /\ Cardinality(cm) + Len(pm) + Len(sp) <= Len(last.input)

\* an update in which a confirmed track and a candidate were matched and a
\* third detection started a candidate
C33_Witness ==
    /\ last.confirmed_matched # {}
    /\ last.probationary_matched # <<>>
    /\ last.spawned # <<>>
    /\ Len(last.input) = 3

-----------------------------------------------------------------------------
(* C34: with the temporal filter enabled and min_confirm_frames >= 2, at   *)
(* every frame boundary every probationary track has                       *)
(* 1 <= frames_observed < min_confirm_frames and a path of exactly         *)
(* frames_observed centroids, none evicted; a candidate that reaches its   *)
(* min_confirm_frames-th observation is promoted or dropped in that very   *)
(* update, and no candidate is observed more often.                        *)
C34_CandidateFramesBelowMin ==
    (tracker.temporal_filter_enabled /\ tracker.min_confirm_frames >= 2) =>
        /\ \A pid \in KeySet(tracker.probationary) :
              LET frames == Get(tracker.probationary_frames, pid)
                  path == Get(tracker.probationary_trajectories, pid)
              IN /\ 1 <= frames
                 /\ frames < tracker.min_confirm_frames
                 /\ Len(path) = frames
                 /\ path[1] = Get(tracker.probationary_initial, pid)
                 /\ path[Len(path)] = Get(tracker.probationary, pid)
        /\ \A i \in DOMAIN last.probationary_matched :
              LET e == last.probationary_matched[i]
              IN /\ e.frames <= tracker.min_confirm_frames
                 /\ Len(e.path) = e.frames
                 /\ e.path[1] = e.initial
                 /\ (e.frames = tracker.min_confirm_frames)
                       <=> (e.outcome \in {"promoted", "dropped"})
                 /\ (e.outcome = "kept") <=> Has(tracker.probationary, e.pid)

\* with min_confirm_frames = 3, one candidate made its third observation and
\* was promoted or dropped while another was kept at its second
C34_Witness ==
    /\ tracker.temporal_filter_enabled
    /\ tracker.min_confirm_frames = 3
    /\ \E i, j \in DOMAIN last.probationary_matched :
          /\ last.probationary_matched[i].frames = 3
          /\ last.probationary_matched[j].outcome = "kept"
          /\ Get(tracker.probationary_frames, last.probationary_matched[j].pid) = 2

-----------------------------------------------------------------------------
\* the candidates at a centroid
CandidatesAt(t, c) == {pid \in KeySet(t.probationary) : Get(t.probationary, pid) = c}

\* the candidates an update started have one observation and a path that
\* holds their first centroid only
SpawnedFresh ==
    \A i \in DOMAIN last.spawned :
        LET s == last.spawned[i]
        IN s.pid # -1 =>
              /\ Get(tracker.probationary_frames, s.pid) = 1
              /\ Get(tracker.probationary_disappeared, s.pid) = 0
              /\ Get(tracker.probationary_trajectories, s.pid) = <<last.input[s.det + 1]>>
              /\ Get(tracker.probationary_initial, s.pid) = last.input[s.det + 1]
              /\ cumulative_distance(Get(tracker.probationary_trajectories, s.pid)) = 0

\* no two detections of a frame share a centroid
Distinct(centroids) ==
    \A i, j \in DOMAIN centroids : centroids[i] = centroids[j] => i = j

\* no frame fed so far held two detections with the same centroid (the
\* freely chosen frames are lists of distinct centroids)
NoSharedCentroid ==
    /\ Distinct(last.input)
    /\ \A n \in DOMAIN script.stream : n <= frame => Distinct(script.stream[n])

-----------------------------------------------------------------------------
(* C36: a track promoted from probationary in an update enters the         *)
(* confirmed set with miss count 0, at the centroid matched in that        *)
(* update, with a trajectory of exactly that one centroid (the             *)
(* probationary path, which holds at least two, is not carried over); it   *)
(* is neither aged nor matched again within the same update, and its       *)
(* candidate is gone.                                                      *)
C36_PromotedEntersFresh ==
    \A e \in Promoted(last) :
        /\ Has(tracker.objects, e.id)
        /\ Get(tracker.objects, e.id) = last.input[e.det + 1]
        /\ e.pos = last.input[e.det + 1]
        /\ Get(tracker.disappeared, e.id) = 0
        /\ get_trajectory(tracker, e.id) = <<last.input[e.det + 1]>>
        /\ Len(e.path) >= 2
        /\ e.id \notin MatchedIds(last)
        /\ e.id \notin last.confirmed_aged
        /\ \A q \in last.confirmed_rejected : q.id # e.id
        /\ ~Has(tracker.probationary, e.pid)
        /\ ~Has(tracker.probationary_trajectories, e.pid)

\* a candidate was promoted in an update that also matched a confirmed
\* track
C36_Witness ==
    /\ Promoted(last) # {}
    /\ last.confirmed_matched # {}
    /\ Len(tracker.objects) >= 2

-----------------------------------------------------------------------------
(* C37: at every frame boundary every confirmed track has a miss count     *)
(* from 0 to max_disappeared and every probationary track one from 0 to 5; *)
(* a track whose count an update would raise beyond its bound is not in    *)
(* the state that update leaves.                                           *)
C37_MissCountsBounded ==
    /\ []( /\ \A i \in DOMAIN tracker.disappeared :
                 /\ 0 <= tracker.disappeared[i].v
                 /\ tracker.disappeared[i].v <= tracker.max_disappeared
           /\ \A i \in DOMAIN tracker.probationary_disappeared :
                 /\ 0 <= tracker.probationary_disappeared[i].v
                 /\ tracker.probationary_disappeared[i].v <= probationary_max_disappeared )
    /\ [][ /\ \A id \in KeySet(tracker.objects) :
                 ( /\ Get(tracker.disappeared, id) = tracker.max_disappeared
                   /\ id \in last'.confirmed_aged )
                 => ~Has(tracker'.objects, id) /\ ~Has(tracker'.disappeared, id)
           /\ \A pid \in KeySet(tracker.probationary) :
                 ( /\ Get(tracker.probationary_disappeared, pid) = probationary_max_disappeared
                   /\ pid \in last'.probationary_aged )
                 => ~Has(tracker'.probationary, pid)
                       /\ ~Has(tracker'.probationary_disappeared, pid)
         ]_vars

\* a confirmed track and a candidate are both at their bound
C37_Witness ==
    /\ \E i \in DOMAIN tracker.disappeared :
          tracker.disappeared[i].v = tracker.max_disappeared
    /\ \E i \in DOMAIN tracker.probationary_disappeared :
          tracker.probationary_disappeared[i].v = probationary_max_disappeared

-----------------------------------------------------------------------------
\* the probationary ids an update handed out, in the order of the calls
SpawnedPids(log) ==
    LET started == SelectSeq(log.spawned, LAMBDA s : s.pid # -1)
    IN [i \in DOMAIN started |-> started[i].pid]

(* C38: after any sequence of register, deregister, promotion, drop and    *)
(* update steps the per-track maps are consistent: the confirmed position  *)
(* map, the confirmed miss count map and the trajectory map have the same  *)
(* key set, in the same order, and the five probationary maps have the     *)
(* same key set; a probationary id is never handed out twice: each update  *)
(* hands out the ids from next_probationary_id on, one by one.             *)
C38_MapsConsistent ==
    /\ []( /\ Keys(tracker.objects) = Keys(tracker.disappeared)
           /\ KeySet(tracker.objects) = KeySet(tracker.trajectories)
           /\ Ascending(Keys(tracker.objects))
           /\ Ascending(Keys(tracker.trajectories))
           /\ Keys(tracker.probationary) = Keys(tracker.probationary_initial)
           /\ Keys(tracker.probationary) = Keys(tracker.probationary_frames)
           /\ Keys(tracker.probationary) = Keys(tracker.probationary_disappeared)
           /\ Keys(tracker.probationary) = Keys(tracker.probationary_trajectories)
           /\ Ascending(Keys(tracker.probationary))
           /\ \A pid \in KeySet(tracker.probationary) : pid < tracker.next_probationary_id
           /\ \A id \in KeySet(tracker.objects) : id < tracker.next_object_id )
    /\ [][ /\ SpawnedPids(last') =
                 [i \in 1..(tracker'.next_probationary_id - tracker.next_probationary_id)
                    |-> tracker.next_probationary_id + i - 1]
           /\ Range(SpawnedPids(last')) \subseteq KeySet(tracker'.probationary)
           /\ KeySet(tracker'.probationary) \ KeySet(tracker.probationary)
                 \subseteq Range(SpawnedPids(last'))
         ]_vars

\* a candidate is held after a candidate was promoted, a confirmed track
\* was deregistered and another candidate was dropped
C38_Witness ==
    /\ Len(tracker.probationary) >= 1
    /\ tracker.next_object_id > Len(tracker.objects)
    /\ tracker.next_probationary_id
          > tracker.next_object_id + Len(tracker.probationary)

-----------------------------------------------------------------------------
\* the steps of a path
Steps(path) == [i \in 1..(Len(path) - 1) |-> Sub(path[i + 1], path[i])]

\* a path whose steps all point the same way: its length is its net
\* displacement in exact arithmetic
Straight(path) ==
    \A i, j \in DOMAIN Steps(path) :
        LET u == Steps(path)[i]
            v == Steps(path)[j]
        IN /\ u[1] * v[2] - u[2] * v[1] = 0
           /\ u[1] * v[1] + u[2] * v[2] >= 0

\* the matches of the last update on which the promotion check went past
\* its test of frames_observed
Checked(log, min_confirm_frames) ==
    {e \in Range(log.probationary_matched) : e.frames >= min_confirm_frames}

====
